---- MODULE Spec2Model ----
(***************************************************************************)
(* lnka: symlink reconciler (internal/filesystem/symlinks.go), the         *)
(* orchestrator (main.go) and the interactive selection models             *)
(* (internal/ui).                                                          *)
(***************************************************************************)
EXTENDS Integers, Sequences, FiniteSets, TLC

(***************************************************************************)
(* Bounds of the model.                                                    *)
(***************************************************************************)
\* longest selectedFiles / orphaned list handed to a batch operation
MaxSel == 2
\* number of symbolic links os.Stat follows before it gives up (ELOOP)
MaxFollow == 2

(***************************************************************************)
(* Paths.  A path is [abs, c]: whether it starts at the root, and its      *)
(* components.  The empty relative path is ".".                            *)
(***************************************************************************)
P(abs, comps) == [abs |-> abs, c |-> comps]

NoPath == P(FALSE, <<>>)

\* the working directory of the process
Cwd == P(TRUE, <<"wd">>)

\* the file names of the model
Names == {"a", "b"}

RECURSIVE CleanC(_, _, _)
CleanC(comps, acc, abs) ==
    IF comps = <<>> THEN acc
    ELSE LET h == Head(comps)
             t == Tail(comps)
         IN  IF h = "." THEN CleanC(t, acc, abs)
             ELSE IF h = ".."
                  THEN IF acc # <<>> /\ acc[Len(acc)] # ".."
                       THEN CleanC(t, SubSeq(acc, 1, Len(acc) - 1), abs)
                       ELSE IF abs THEN CleanC(t, acc, abs)
                            ELSE CleanC(t, Append(acc, h), abs)
                  ELSE CleanC(t, Append(acc, h), abs)

\* filepath.Clean
Clean(p) == P(p.abs, CleanC(p.c, <<>>, p.abs))

\* filepath.IsAbs
IsAbs(p) == p.abs

\* filepath.Join(a, b) for a non-empty a
Join(a, b) == Clean(P(a.abs, a.c \o b.c))

\* filepath.Abs
Abs(p) == IF IsAbs(p) THEN Clean(p) ELSE Join(Cwd, p)

RECURSIVE SumLen(_)
SumLen(comps) == IF comps = <<>> THEN 0 ELSE Len(Head(comps)) + SumLen(Tail(comps))

\* len(path): the number of characters of the path as a string
StrLen(p) ==
    IF p.abs
    THEN (IF p.c = <<>> THEN 1 ELSE SumLen(p.c) + Len(p.c))
    ELSE (IF p.c = <<>> THEN 1 ELSE SumLen(p.c) + Len(p.c) - 1)

RECURSIVE CommonPrefixLen(_, _)
CommonPrefixLen(x, y) ==
    IF x = <<>> \/ y = <<>> \/ Head(x) # Head(y) THEN 0
    ELSE 1 + CommonPrefixLen(Tail(x), Tail(y))

\* filepath.Rel(base, targ): [ok, p]
Rel(base, targ) ==
    LET b == Clean(base)
        t == Clean(targ)
        k == CommonPrefixLen(b.c, t.c)
        brest == SubSeq(b.c, k + 1, Len(b.c))
        trest == SubSeq(t.c, k + 1, Len(t.c))
    IN  IF b = t THEN [ok |-> TRUE, p |-> P(FALSE, <<>>)]
        ELSE IF b.abs # t.abs THEN [ok |-> FALSE, p |-> NoPath]
        ELSE IF brest # <<>> /\ Head(brest) = ".." THEN [ok |-> FALSE, p |-> NoPath]
        ELSE [ok |-> TRUE, p |-> P(FALSE, [i \in 1..Len(brest) |-> ".."] \o trest)]

(***************************************************************************)
(* The file system: the entries, by name, of each directory of the model.  *)
(***************************************************************************)
\* the directories of the model, as the components of their absolute path
AllDirs == {<<"wd", "s">>, <<"wd", "t">>, <<"s">>, <<"t">>}

\* the (sourceDir, targetDir) arguments a run is started with: siblings
\* given as absolute paths, the same given as relative paths, siblings right
\* under the root, and one directory given twice
DirPairs ==
    { <<P(TRUE, <<"wd", "s">>), P(TRUE, <<"wd", "t">>)>>,
      <<P(FALSE, <<"s">>), P(FALSE, <<"t">>)>>,
      <<P(TRUE, <<"s">>), P(TRUE, <<"t">>)>>,
      <<P(TRUE, <<"wd", "t">>), P(TRUE, <<"wd", "t">>)>> }

None == [kind |-> "none", target |-> NoPath]
File == [kind |-> "file", target |-> NoPath]
Dir == [kind |-> "dir", target |-> NoPath]
DirFull == [kind |-> "dirfull", target |-> NoPath]
Link(t) == [kind |-> "link", target |-> t]

EmptyDir == [n \in Names |-> None]

IsPrefix(x, y) == Len(x) <= Len(y) /\ SubSeq(y, 1, Len(x)) = x

\* the entry at an absolute path made of a directory of the model and a name
EntryAt(f, d, n) == IF d \in AllDirs /\ n \in Names THEN f[d][n] ELSE None

\* where the kernel continues after reading link target t in directory d
ResolveOS(d, t) == IF t.abs THEN Clean(t) ELSE Clean(P(TRUE, d \o t.c))

\* os.Stat of an absolute cleaned path: "ok", "notexist" or "other"
RECURSIVE StatAbs(_, _, _)
StatAbs(f, c, depth) ==
    IF \E d \in AllDirs : IsPrefix(c, d) THEN "ok"
    ELSE IF \E d \in AllDirs : IsPrefix(d, c) /\ Len(c) > Len(d)
    THEN LET d == CHOOSE dd \in AllDirs : IsPrefix(dd, c) /\ Len(c) > Len(dd)
                    /\ \A d2 \in AllDirs :
                         (IsPrefix(d2, c) /\ Len(c) > Len(d2)) => Len(d2) <= Len(dd)
             n == c[Len(d) + 1]
             rest == SubSeq(c, Len(d) + 2, Len(c))
             e == EntryAt(f, d, n)
         IN  IF e.kind = "none" THEN "notexist"
             ELSE IF e.kind = "file" THEN (IF rest = <<>> THEN "ok" ELSE "other")
             ELSE IF e.kind \in {"dir", "dirfull"}
                  THEN (IF rest = <<>> THEN "ok" ELSE "notexist")
             ELSE IF depth = 0 THEN "other"
                  ELSE StatAbs(f, Clean(P(TRUE, ResolveOS(d, e.target).c \o rest)).c,
                               depth - 1)
    ELSE "notexist"

\* os.Stat(path)
Stat(f, p) == StatAbs(f, Abs(p).c, MaxFollow)

\* os.Lstat(dir/name): the entry itself, links not followed
Lstat(f, dir, n) == EntryAt(f, Abs(dir).c, n)

(***************************************************************************)
(* Primitive file operations.  An operation yields [fs, err, trace]: the   *)
(* file system afterwards, the error ("" for none) and the mutations made; *)
(* a batch operation records in its trace, before the mutations of each    *)
(* call, the call it makes of RemoveSymlink or CreateSymlink.              *)
(***************************************************************************)
R(f, err, trace) == [fs |-> f, err |-> err, trace |-> trace]

Mut(op, d, n) == [op |-> op, dir |-> d, name |-> n]

\* the record of a call that a batch operation makes of fn(dir, name)
Call(fn, d, n) == [op |-> fn, dir |-> d, name |-> n]

SetEntry(f, d, n, e) == [f EXCEPT ![d][n] = e]

\* os.Remove(dir/name); den: the names the process may not unlink or create
OsRemove(f, den, d, n) ==
    LET e == EntryAt(f, d, n)
    IN  IF e.kind = "none" THEN R(f, "ENOENT", <<>>)
        ELSE IF n \in den THEN R(f, "EPERM", <<>>)
        ELSE IF e.kind = "dirfull" THEN R(f, "ENOTEMPTY", <<>>)
        ELSE R(SetEntry(f, d, n, None), "", <<Mut("remove", d, n)>>)

\* os.Symlink(target, dir/name)
OsSymlink(f, den, d, n, target) ==
    LET e == EntryAt(f, d, n)
    IN  IF e.kind # "none" THEN R(f, "EEXIST", <<>>)
        ELSE IF n \in den THEN R(f, "EPERM", <<>>)
        ELSE R(SetEntry(f, d, n, Link(target)), "", <<Mut("symlink", d, n)>>)

\* the order os.ReadDir lists names in
NameOrder == <<"a", "b">>

RECURSIVE SelectSeq2(_, _)
SelectSeq2(s, S) ==
    IF s = <<>> THEN <<>>
    ELSE IF Head(s) \in S THEN <<Head(s)>> \o SelectSeq2(Tail(s), S)
    ELSE SelectSeq2(Tail(s), S)

Range(s) == {s[i] : i \in 1..Len(s)}

\* the orders a Go map of the keys S may be iterated in
Perms(S) == {s \in [1..Cardinality(S) -> S] : Range(s) = S}

(***************************************************************************)
(* internal/config: Config.Validate with checkDirExists, for non-empty     *)
(* arguments: both name a directory that exists.                           *)
(***************************************************************************)
Validate(f, src, tgt) ==
    \A p \in {src, tgt} :
        Stat(f, p) = "ok" /\ \E d \in AllDirs : IsPrefix(Abs(p).c, d)

(***************************************************************************)
(* internal/filesystem/symlinks.go                                         *)
(***************************************************************************)
FileName(n) == P(FALSE, <<n>>)

\* ListAvailableFiles: the entries of dir that are not directories
ListAvailableFiles(f, dir) ==
    SelectSeq2(NameOrder,
               {n \in Names : EntryAt(f, Abs(dir).c, n).kind \in {"file", "link"}})

\* ListEnabledSymlinks: the names of the symlinks of targetDir (their
\* targets are read with LinkTarget)
ListEnabledSymlinks(f, targetDir) ==
    {n \in Names : Lstat(f, targetDir, n).kind = "link"}

LinkTarget(f, targetDir, n) == Lstat(f, targetDir, n).target

\* the resolution rule: absolute as is, otherwise joined with targetDir
ResolveTarget(targetDir, target) ==
    IF IsAbs(target) THEN target ELSE Join(targetDir, target)

\* GetEnabledFiles comparing the directory of the resolved target only
GetEnabledFilesAnyName(f, sourceDir, targetDir) ==
    {n \in ListEnabledSymlinks(f, targetDir) :
        \E x \in Names :
            Abs(ResolveTarget(targetDir, LinkTarget(f, targetDir, n)))
                = Abs(Join(sourceDir, FileName(x)))}

\* GetEnabledFiles, as a set (the list is in map order)
GetEnabledFiles(f, sourceDir, targetDir) ==
    {n \in ListEnabledSymlinks(f, targetDir) :
        Abs(ResolveTarget(targetDir, LinkTarget(f, targetDir, n)))
            = Abs(Join(sourceDir, FileName(n)))}

\* a link target that is the relative path whenever filepath.Rel yields one
SymlinkTargetAlwaysRel(sourceDir, targetDir, n) ==
    LET sourcePath == Join(sourceDir, FileName(n))
        rel == Rel(targetDir, sourcePath)
    IN  IF rel.ok /\ ~IsAbs(rel.p) THEN rel.p ELSE sourcePath

\* the link target CreateSymlink writes
SymlinkTarget(sourceDir, targetDir, n) ==
    LET sourcePath == Join(sourceDir, FileName(n))
        rel == Rel(targetDir, sourcePath)
    IN  IF rel.ok /\ ~IsAbs(rel.p) /\ StrLen(rel.p) < StrLen(sourcePath)
        THEN rel.p
        ELSE sourcePath

\* the removal of an existing entry at the link path in CreateSymlink
RemoveExisting(f, den, targetDir, n) ==
    IF Lstat(f, targetDir, n).kind # "none"
    THEN OsRemove(f, den, Abs(targetDir).c, n)
    ELSE R(f, "", <<>>)

CreateSymlink(f, den, sourceDir, targetDir, n) ==
    IF Stat(f, Join(sourceDir, FileName(n))) # "ok"
    THEN R(f, "source file does not exist", <<>>)
    ELSE LET r1 == RemoveExisting(f, den, targetDir, n)
         IN  IF r1.err # ""
             THEN R(r1.fs, "failed to remove existing symlink", r1.trace)
             ELSE LET r2 == OsSymlink(r1.fs, den, Abs(targetDir).c, n,
                                      SymlinkTarget(sourceDir, targetDir, n))
                  IN  IF r2.err # ""
                      THEN R(r2.fs, "failed to create symlink", r1.trace \o r2.trace)
                      ELSE R(r2.fs, "", r1.trace \o r2.trace)

RemoveSymlinkNoGuard(f, den, targetDir, n) ==
    LET e == Lstat(f, targetDir, n)
    IN  IF e.kind = "none" THEN R(f, "", <<>>)
        ELSE LET r == OsRemove(f, den, Abs(targetDir).c, n)
             IN  IF r.err # "" THEN R(r.fs, "failed to remove symlink", r.trace)
                 ELSE r

RemoveSymlink(f, den, targetDir, n) ==
    LET e == Lstat(f, targetDir, n)
    IN  IF e.kind = "none" THEN R(f, "", <<>>)
        ELSE IF e.kind # "link" THEN R(f, "is not a symlink, refusing to remove", <<>>)
        ELSE LET r == OsRemove(f, den, Abs(targetDir).c, n)
             IN  IF r.err # "" THEN R(r.fs, "failed to remove symlink", r.trace)
                 ELSE r

\* ValidateSymlinks reporting a link on any error of os.Stat
ValidateSymlinksAnyError(f, sourceDir, targetDir) ==
    {n \in ListEnabledSymlinks(f, targetDir) :
        Stat(f, ResolveTarget(targetDir, LinkTarget(f, targetDir, n))) # "ok"}

\* ValidateSymlinks, as a set (the list is in map order)
ValidateSymlinks(f, sourceDir, targetDir) ==
    {n \in ListEnabledSymlinks(f, targetDir) :
        Stat(f, ResolveTarget(targetDir, LinkTarget(f, targetDir, n))) = "notexist"}

\* CleanOrphanedSymlinks returning after the first name
CleanOrphanedSymlinksFirst(f, den, targetDir, orphaned) ==
    IF orphaned = <<>> THEN R(f, "", <<>>)
    ELSE LET r == RemoveSymlink(f, den, targetDir, Head(orphaned))
             t == <<Call("RemoveSymlink", Abs(targetDir).c, Head(orphaned))>> \o r.trace
         IN  IF r.err # ""
             THEN R(r.fs, "failed to clean orphaned symlink", t)
             ELSE R(r.fs, "", t)

RECURSIVE CleanLoop(_, _, _, _, _)
CleanLoop(f, den, targetDir, orphaned, trace) ==
    IF orphaned = <<>> THEN R(f, "", trace)
    ELSE LET r == RemoveSymlink(f, den, targetDir, Head(orphaned))
             t == Append(trace, Call("RemoveSymlink", Abs(targetDir).c, Head(orphaned)))
                    \o r.trace
         IN  IF r.err # ""
             THEN R(r.fs, "failed to clean orphaned symlink", t)
             ELSE CleanLoop(r.fs, den, targetDir, Tail(orphaned), t)

CleanOrphanedSymlinks(f, den, targetDir, orphaned) ==
    CleanLoop(f, den, targetDir, orphaned, <<>>)

\* the first loop of ApplyChanges, over currentlyEnabled
RECURSIVE RemoveLoop(_, _, _, _, _, _)
RemoveLoop(f, den, targetDir, current, selectedMap, trace) ==
    IF current = <<>> THEN R(f, "", trace)
    ELSE IF Head(current) \in selectedMap
    THEN RemoveLoop(f, den, targetDir, Tail(current), selectedMap, trace)
    ELSE LET r == RemoveSymlink(f, den, targetDir, Head(current))
             t == Append(trace, Call("RemoveSymlink", Abs(targetDir).c, Head(current)))
                    \o r.trace
         IN  IF r.err # "" THEN R(r.fs, r.err, t)
             ELSE RemoveLoop(r.fs, den, targetDir, Tail(current), selectedMap, t)

\* the second loop of ApplyChanges, over selectedFiles
RECURSIVE CreateLoop(_, _, _, _, _, _, _)
CreateLoop(f, den, sourceDir, targetDir, selectedFiles, currentMap, trace) ==
    IF selectedFiles = <<>> THEN R(f, "", trace)
    ELSE IF Head(selectedFiles) \in currentMap
    THEN CreateLoop(f, den, sourceDir, targetDir, Tail(selectedFiles), currentMap, trace)
    ELSE LET r == CreateSymlink(f, den, sourceDir, targetDir, Head(selectedFiles))
             t == Append(trace, Call("CreateSymlink", Abs(targetDir).c,
                                     Head(selectedFiles)))
                    \o r.trace
         IN  IF r.err # "" THEN R(r.fs, r.err, t)
             ELSE CreateLoop(r.fs, den, sourceDir, targetDir, Tail(selectedFiles),
                             currentMap, t)

\* ApplyChanges creating the missing links before it removes the others
ApplyChangesCreateFirst(f, den, sourceDir, targetDir, selectedFiles, currentlyEnabled) ==
    LET r1 == CreateLoop(f, den, sourceDir, targetDir, selectedFiles,
                         Range(currentlyEnabled), <<>>)
    IN  IF r1.err # "" THEN r1
        ELSE RemoveLoop(r1.fs, den, targetDir, currentlyEnabled,
                        Range(selectedFiles), r1.trace)

\* ApplyChanges going on to the creations after a removal has failed
ApplyChangesNoStop(f, den, sourceDir, targetDir, selectedFiles, currentlyEnabled) ==
    LET r1 == RemoveLoop(f, den, targetDir, currentlyEnabled, Range(selectedFiles), <<>>)
        r2 == CreateLoop(r1.fs, den, sourceDir, targetDir, selectedFiles,
                         Range(currentlyEnabled), r1.trace)
    IN  IF r1.err # "" THEN R(r2.fs, r1.err, r2.trace) ELSE r2

\* ApplyChanges removing every enabled link and creating every selected one
ApplyChangesRebuildAll(f, den, sourceDir, targetDir, selectedFiles, currentlyEnabled) ==
    LET r1 == RemoveLoop(f, den, targetDir, currentlyEnabled, {}, <<>>)
    IN  IF r1.err # "" THEN r1
        ELSE CreateLoop(r1.fs, den, sourceDir, targetDir, selectedFiles, {}, r1.trace)

\* ApplyChanges; currentlyEnabled is GetEnabledFiles' list, in the order the
\* map iteration produced
ApplyChanges(f, den, sourceDir, targetDir, selectedFiles, currentlyEnabled) ==
    LET r1 == RemoveLoop(f, den, targetDir, currentlyEnabled, Range(selectedFiles), <<>>)
    IN  IF r1.err # "" THEN r1
        ELSE CreateLoop(r1.fs, den, sourceDir, targetDir, selectedFiles,
                        Range(currentlyEnabled), r1.trace)

(***************************************************************************)
(* The custom-list selection model (multiSelectModel with its own cursor,  *)
(* filter and cache).  A model value is a record m; a method with a        *)
(* pointer receiver is an operator from m to the m it leaves.  Indices and *)
(* the cursor count from 0, as in the code.                                *)
(***************************************************************************)
\* longest filter text typed
MaxFilterLen == 2
\* maxVisibleItems, the page size the model is created with
MaxVisibleItems == 2

\* availableFiles of the selection session
Choices == <<"gh", "G", "hg">>

\* a name that is enabled in the target directory but is no candidate file
Stray == "x"

\* the characters of a name
Chars(n) ==
    CASE n = "gh" -> <<"g", "h">>
      [] n = "G" -> <<"G">>
      [] n = "hg" -> <<"h", "g">>
      [] OTHER -> <<n>>

\* strings.ToLower, on one character
LowerChar(ch) == IF ch = "G" THEN "g" ELSE IF ch = "H" THEN "h" ELSE ch

\* strings.ToLower
ToLower(s) == [i \in 1..Len(s) |-> LowerChar(s[i])]

\* strings.Contains
Contains(s, sub) ==
    \E i \in 0..(Len(s) - Len(sub)) : SubSeq(s, i + 1, i + Len(sub)) = sub

\* len(key) == 1
OneChar(key) == key \in {"/", "h", " ", "g", "G"}

\* the key events of the model, one key for each entry of defaultKeyBindings
\* (ctrl+c, k, j, ctrl+f and ctrl+b are bound as esc, up, down, pgdown and
\* pgup are)
Keys ==
    {"esc", "enter", "/", "h", " ", "up", "down", "backspace", "g", "G",
     "ctrl+a", "ctrl+d", "pgdown", "pgup"}

IndexOf(s, x) == IF \E i \in 1..Len(s) : s[i] = x
                 THEN (CHOOSE i \in 1..Len(s) : s[i] = x /\ \A j \in 1..(i - 1) : s[j] # x) - 1
                 ELSE -1

Min(a, b) == IF a < b THEN a ELSE b
Max(a, b) == IF a > b THEN a ELSE b

\* the loop of getVisibleChoices in hideUnlinked mode, with its early exit
RECURSIVE HideLoop(_, _, _, _)
HideLoop(base, selected, selectedCount, visible) ==
    IF base = <<>> THEN visible
    ELSE IF Head(base) \in selected
    THEN (IF Len(visible) + 1 = selectedCount
          THEN Append(visible, Head(base))
          ELSE HideLoop(Tail(base), selected, selectedCount, Append(visible, Head(base))))
    ELSE HideLoop(Tail(base), selected, selectedCount, visible)

\* getVisibleChoices with an invalid cache
computeVisible(m) ==
    LET baseChoices == IF m.filter # <<>> THEN m.filtered ELSE m.choices
    IN  IF m.hideUnlinked
        THEN HideLoop(baseChoices, m.selected, Cardinality(m.selected), <<>>)
        ELSE baseChoices

\* the value getVisibleChoices returns
getVisibleChoices(m) == IF m.cacheValid THEN m.cachedVisibleChoices ELSE computeVisible(m)

\* the model getVisibleChoices leaves: the cache is filled
cacheFilled(m) ==
    IF m.cacheValid THEN m
    ELSE [m EXCEPT !.cachedVisibleChoices = computeVisible(m), !.cacheValid = TRUE]

\* updateFiltered comparing the names and the filter as they are typed
updateFilteredExact(m) ==
    [m EXCEPT !.filtered =
        SelectSeq2(m.choices, {c \in Range(m.choices) : Contains(Chars(c), m.filter)})]

updateFiltered(m) ==
    [m EXCEPT !.filtered =
        SelectSeq2(m.choices,
                   {c \in Range(m.choices) : Contains(ToLower(Chars(c)), ToLower(m.filter))})]

clampCursor(m) ==
    LET choices == getVisibleChoices(m)
        m1 == cacheFilled(m)
    IN  IF Len(choices) = 0 THEN [m1 EXCEPT !.cursor = 0]
        ELSE IF m1.cursor >= Len(choices) THEN [m1 EXCEPT !.cursor = Len(choices) - 1]
        ELSE IF m1.cursor < 0 THEN [m1 EXCEPT !.cursor = 0]
        ELSE m1

\* selectItem putting the choice first in the order
selectItemFront(m, choice) ==
    [m EXCEPT !.selected = @ \cup {choice},
              !.selectedIndex = [c \in DOMAIN @ \cup {choice} |->
                                    IF c = choice THEN 0 ELSE @[c] + 1],
              !.selectedOrder = <<choice>> \o @]

selectItem(m, choice) ==
    [m EXCEPT !.selected = @ \cup {choice},
              !.selectedIndex = [c \in DOMAIN @ \cup {choice} |->
                                    IF c = choice THEN Len(m.selectedOrder) ELSE @[c]],
              !.selectedOrder = Append(@, choice)]

RemoveAt(s, idx) == SubSeq(s, 1, idx) \o SubSeq(s, idx + 2, Len(s))

\* removeFromOrder taking the first entry of the order, whatever the index
removeFromOrderFirst(m, choice) ==
    IF choice \notin DOMAIN m.selectedIndex THEN m
    ELSE LET order == Tail(m.selectedOrder)
         IN  [m EXCEPT !.selectedOrder = order,
                       !.selectedIndex =
                           [c \in (DOMAIN @ \ {choice}) \cup Range(order) |->
                               IF c \in Range(order) THEN IndexOf(order, c) ELSE @[c]]]

\* removeFromOrder leaving the indices of the names behind the removed one
\* as they were
removeFromOrderStaleIndex(m, choice) ==
    IF choice \notin DOMAIN m.selectedIndex THEN m
    ELSE [m EXCEPT !.selectedOrder = RemoveAt(@, m.selectedIndex[choice]),
                   !.selectedIndex = [c \in DOMAIN @ \ {choice} |-> @[c]]]

removeFromOrder(m, choice) ==
    IF choice \notin DOMAIN m.selectedIndex THEN m
    ELSE LET idx == m.selectedIndex[choice]
             order == RemoveAt(m.selectedOrder, idx)
             moved == {order[i + 1] : i \in idx..(Len(order) - 1)}
         IN  [m EXCEPT !.selectedOrder = order,
                       !.selectedIndex =
                           [c \in (DOMAIN @ \ {choice}) \cup moved |->
                               IF c \in moved
                               THEN CHOOSE i \in idx..(Len(order) - 1) :
                                       order[i + 1] = c
                                         /\ \A j \in (i + 1)..(Len(order) - 1) :
                                               order[j + 1] # c
                               ELSE @[c]]]

switchToShowAllMode(m, cursorItem) ==
    LET m1 == [m EXCEPT !.hideUnlinked = FALSE]
        newChoices == getVisibleChoices(m1)
        m2 == cacheFilled(m1)
    IN  IF IndexOf(newChoices, cursorItem) >= 0
        THEN [m2 EXCEPT !.cursor = IndexOf(newChoices, cursorItem)]
        ELSE clampCursor(m2)

adjustCursorAfterItemRemoved(m, previousCursor) ==
    LET newChoices == getVisibleChoices(m)
        m1 == cacheFilled(m)
    IN  IF Len(newChoices) = 0 THEN [m1 EXCEPT !.cursor = 0]
        ELSE IF previousCursor >= Len(newChoices)
        THEN [m1 EXCEPT !.cursor = Len(newChoices) - 1]
        ELSE [m1 EXCEPT !.cursor = previousCursor]

handleHideUnlinkedAfterDeselect(m, deselectedChoice, currentCursor) ==
    LET choices == getVisibleChoices(m)
        m1 == cacheFilled(m)
        hasLinkedItems == \E i \in 1..Len(choices) : choices[i] \in m1.selected
    IN  IF ~hasLinkedItems
        THEN switchToShowAllMode(m1, deselectedChoice)
        ELSE adjustCursorAfterItemRemoved(m1, currentCursor)

deselectItem(m, choice, currentCursor) ==
    LET m1 == removeFromOrder([m EXCEPT !.selected = @ \ {choice}], choice)
    IN  IF m1.hideUnlinked
        THEN handleHideUnlinkedAfterDeselect(m1, choice, currentCursor)
        ELSE m1

handleToggleSelection(m) ==
    LET choices == getVisibleChoices(m)
        m1 == cacheFilled(m)
    IN  IF m1.cursor < 0 \/ m1.cursor >= Len(choices) THEN m1
        ELSE LET choice == choices[m1.cursor + 1]
             IN  IF choice \in m1.selected
                 THEN deselectItem(m1, choice, m1.cursor)
                 ELSE selectItem(m1, choice)

repositionCursorAfterModeChange(m, itemToFind) ==
    IF itemToFind = "" THEN clampCursor(m)
    ELSE LET newChoices == getVisibleChoices(m)
             m1 == cacheFilled(m)
         IN  IF IndexOf(newChoices, itemToFind) >= 0
             THEN [m1 EXCEPT !.cursor = IndexOf(newChoices, itemToFind)]
             ELSE clampCursor(m1)

\* the select-all loop of Update
RECURSIVE selectAllLoop(_, _)
selectAllLoop(m, visibleChoices) ==
    IF visibleChoices = <<>> THEN m
    ELSE IF Head(visibleChoices) \in m.selected
    THEN selectAllLoop(m, Tail(visibleChoices))
    ELSE selectAllLoop(selectItem(m, Head(visibleChoices)), Tail(visibleChoices))

\* the branches of Update for a key outside Filtering mode, after the quit,
\* confirm and filter keys
browseKey(m, key) ==
    LET needsVisibleChoices ==
            key \in {"up", "down", "G", "pgdown", "pgup", "ctrl+a", " ", "h"}
        visibleChoices == IF needsVisibleChoices THEN getVisibleChoices(m) ELSE <<>>
        m1 == IF needsVisibleChoices THEN cacheFilled(m) ELSE m
    IN  IF key = "up"
        THEN (IF m1.cursor > 0 THEN [m1 EXCEPT !.cursor = @ - 1] ELSE m1)
        ELSE IF key = "down"
        THEN (IF m1.cursor < Len(visibleChoices) - 1
              THEN [m1 EXCEPT !.cursor = @ + 1] ELSE m1)
        ELSE IF key = "g" THEN [m1 EXCEPT !.cursor = 0]
        ELSE IF key = "G"
        THEN (IF Len(visibleChoices) > 0
              THEN [m1 EXCEPT !.cursor = Len(visibleChoices) - 1] ELSE m1)
        ELSE IF key = "pgdown"
        THEN [m1 EXCEPT !.cursor = Min(@ + m1.maxVisibleItems, Len(visibleChoices) - 1)]
        ELSE IF key = "pgup"
        THEN [m1 EXCEPT !.cursor = Max(@ - m1.maxVisibleItems, 0)]
        ELSE IF key = "ctrl+a" THEN selectAllLoop(m1, visibleChoices)
        ELSE IF key = "ctrl+d"
        THEN LET m2 == [m1 EXCEPT !.selected = {}, !.selectedOrder = <<>>,
                                  !.selectedIndex = <<>>]
             IN  IF m2.hideUnlinked THEN clampCursor([m2 EXCEPT !.hideUnlinked = FALSE])
                 ELSE m2
        ELSE IF key = " " THEN handleToggleSelection(m1)
        ELSE IF key = "h" /\ Cardinality(m1.selected) > 0
        THEN LET currentItem == IF m1.cursor >= 0 /\ m1.cursor < Len(visibleChoices)
                                THEN visibleChoices[m1.cursor + 1] ELSE ""
             IN  repositionCursorAfterModeChange(
                     [m1 EXCEPT !.hideUnlinked = ~@], currentItem)
        ELSE m1

\* filterKey deselecting the selected names that the new filter text hides
filterKeyDropsHidden(m, key) ==
    LET m1 == IF key = "backspace"
              THEN (IF Len(m.filter) > 0
                    THEN clampCursor(updateFiltered(
                             [m EXCEPT !.filter = SubSeq(@, 1, Len(@) - 1)]))
                    ELSE m)
              ELSE IF OneChar(key)
              THEN clampCursor(updateFiltered([m EXCEPT !.filter = Append(@, key)]))
              ELSE m
        kept == m1.selected \cap Range(computeVisible(m1))
        order == SelectSeq2(m1.selectedOrder, kept)
    IN  [m1 EXCEPT !.selected = kept,
                   !.selectedOrder = order,
                   !.selectedIndex = [c \in kept |-> IndexOf(order, c)]]

\* filterKey leaving Filtering mode when Backspace empties the filter
filterKeyExitOnEmpty(m, key) ==
    IF key = "backspace"
    THEN (IF Len(m.filter) > 0
          THEN clampCursor(updateFiltered(
                   [m EXCEPT !.filter = SubSeq(@, 1, Len(@) - 1),
                             !.filtering = Len(m.filter) > 1]))
          ELSE m)
    ELSE IF OneChar(key)
    THEN clampCursor(updateFiltered([m EXCEPT !.filter = Append(@, key)]))
    ELSE m

\* the branches of Update for a key in Filtering mode, after the quit,
\* confirm and filter keys
filterKey(m, key) ==
    IF key = "backspace"
    THEN (IF Len(m.filter) > 0
          THEN clampCursor(updateFiltered(
                   [m EXCEPT !.filter = SubSeq(@, 1, Len(@) - 1)]))
          ELSE m)
    ELSE IF OneChar(key)
    THEN clampCursor(updateFiltered([m EXCEPT !.filter = Append(@, key)]))
    ELSE m

\* an Update whose confirm key ends the session in Filtering mode too
UpdateEnterQuits(m, key) ==
    LET m0 == [m EXCEPT !.cacheValid = FALSE]
    IN  IF key = "esc" THEN [m0 EXCEPT !.aborted = TRUE, !.quit = TRUE]
        ELSE IF key = "enter" THEN [m0 EXCEPT !.quit = TRUE]
        ELSE IF key = "/" /\ ~m0.filtering THEN [m0 EXCEPT !.filtering = TRUE]
        ELSE IF m0.filtering THEN filterKey(m0, key)
        ELSE browseKey(m0, key)

\* multiSelectModel.Update for a tea.KeyMsg; quit: tea.Quit is returned
Update(m, key) ==
    LET m0 == [m EXCEPT !.cacheValid = FALSE]
    IN  IF key = "esc" THEN [m0 EXCEPT !.aborted = TRUE, !.quit = TRUE]
        ELSE IF key = "enter"
        THEN (IF ~m0.filtering THEN [m0 EXCEPT !.quit = TRUE]
              ELSE clampCursor([m0 EXCEPT !.filtering = FALSE]))
        ELSE IF key = "/" /\ ~m0.filtering THEN [m0 EXCEPT !.filtering = TRUE]
        ELSE IF m0.filtering THEN filterKey(m0, key)
        ELSE browseKey(m0, key)

\* the model ShowMultiSelect creates
NewModel(availableFiles, currentlyEnabled, maxVisibleItems) ==
    [ choices |-> availableFiles,
      selected |-> Range(currentlyEnabled),
      selectedOrder |-> currentlyEnabled,
      selectedIndex |-> [c \in Range(currentlyEnabled) |-> IndexOf(currentlyEnabled, c)],
      cursor |-> IF Len(currentlyEnabled) > 0
                    /\ IndexOf(availableFiles, currentlyEnabled[1]) >= 0
                 THEN IndexOf(availableFiles, currentlyEnabled[1]) ELSE 0,
      filter |-> <<>>,
      filtering |-> FALSE,
      filtered |-> <<>>,
      aborted |-> FALSE,
      hideUnlinked |-> FALSE,
      cachedVisibleChoices |-> <<>>,
      cacheValid |-> FALSE,
      maxVisibleItems |-> maxVisibleItems,
      quit |-> FALSE ]

(***************************************************************************)
(* The list-based selection model (multiSelectModel around a bubbles       *)
(* list.Model, ShowFileSelect).  The list component is a library; of it    *)
(* the model keeps the items, the index and the filter state, and what its *)
(* default key map does with the keys Update delegates to it.  Its filter  *)
(* text and matching are not modelled: with a filter, the visible items    *)
(* are any selection of the items, in any order, at each event.            *)
(***************************************************************************)
\* fileItem
fileItem(name, isEnabled) == [name |-> name, isEnabled |-> isEnabled]

\* SelectedItem() == nil
NoItem == fileItem("", FALSE)

\* list.New with no items
listNew == [items |-> <<>>, index |-> 0, filterState |-> "unfiltered"]

\* what list.Model.VisibleItems may return: the items, or with a filter any
\* selection of them
VisibleItems(l) ==
    IF l.filterState # "unfiltered"
    THEN UNION {Perms({l.items[i] : i \in I}) : I \in SUBSET (1..Len(l.items))}
    ELSE {l.items}

\* list.Model.SelectedItem, the visible items being visible
SelectedItem(l, visible) ==
    IF l.index < 0 \/ Len(visible) = 0 \/ Len(visible) <= l.index THEN NoItem
    ELSE visible[l.index + 1]

\* list.Model.SetItems
SetItems(l, items) == [l EXCEPT !.items = items]

\* list.Model.SetItem
SetItem(l, index, item) == [l EXCEPT !.items[index + 1] = item]

\* list.Model.Select
Select(l, index) == [l EXCEPT !.index = index]

\* the list leaves Filtering or FilterApplied for Unfiltered
resetFiltering(l) == [l EXCEPT !.filterState = "unfiltered"]

\* the items on one page of the list: Paginator.PerPage of a list one item
\* high (and of the list as it is created, with height 0)
PerPage == 1

\* list.Model.Update for a tea.KeyMsg.  While the filter is typed, esc
\* cancels it, enter applies it unless it lets nothing through, and the
\* other keys edit its text; otherwise the default key map quits on q and,
\* with no filter applied, on esc, and goes one page back on h
listUpdate(l, k, visible) ==
    LET last == Max(Len(visible) - 1, 0)
        stay(ll) == [l |-> ll, cmd |-> "none"]
    IN  IF l.filterState = "filtering"
        THEN (IF k = "esc" THEN stay(resetFiltering(l))
              ELSE IF k = "enter" /\ Len(l.items) # 0
              THEN (IF Len(visible) = 0 THEN stay(resetFiltering(l))
                    ELSE stay([l EXCEPT !.filterState = "applied"]))
              ELSE stay(l))
        ELSE IF k = "esc" /\ l.filterState = "applied" THEN stay(resetFiltering(l))
        ELSE IF k \in {"q", "esc"} THEN [l |-> l, cmd |-> "quit"]
        ELSE IF k = "up" THEN stay([l EXCEPT !.index = Max(@ - 1, 0)])
        ELSE IF k = "down" THEN stay([l EXCEPT !.index = Min(@ + 1, last)])
        ELSE IF k = "/" THEN stay([l EXCEPT !.filterState = "filtering", !.index = 0])
        ELSE IF k = "h"
        THEN stay([l EXCEPT !.index = IF @ >= PerPage THEN @ - PerPage ELSE @])
        ELSE stay(l)

\* the model ShowFileSelect creates
NewFileSelect ==
    [ list |-> listNew,
      selectedMap |-> {},
      selectedOrder |-> <<>>,
      availableFiles |-> <<>>,
      aborted |-> FALSE,
      hideUnlinked |-> FALSE,
      loading |-> TRUE,
      err |-> "" ]

\* buildItemList, from the fields the caller's model holds
buildItemList(availableFiles, hideUnlinked, selectedMap) ==
    LET shown == {n \in Range(availableFiles) : ~(hideUnlinked /\ n \notin selectedMap)}
        names == SelectSeq2(availableFiles, shown)
    IN  [i \in 1..Len(names) |-> fileItem(names[i], names[i] \in selectedMap)]

\* no command, and tea.Quit
NoCmd == [kind |-> "none"]
QuitCmd == [kind |-> "quit"]

\* the command rebuildItemsCmdWithCursor returns: it holds the model of the
\* Update that made it, and with it the selection map that later Updates
\* write to until one of them replaces the map
rebuildItemsCmdWithCursor(u, fileName) ==
    [kind |-> "rebuild", availableFiles |-> u.availableFiles,
     hideUnlinked |-> u.hideUnlinked, shared |-> TRUE, selectedMap |-> {},
     cursorFileName |-> fileName]

\* removeFromOrder of the list-based model
removeFromOrderList(u, file) ==
    IF \E i \in 1..Len(u.selectedOrder) : u.selectedOrder[i] = file
    THEN [u EXCEPT !.selectedOrder = RemoveAt(@, IndexOf(@, file))]
    ELSE u

\* shouldDisableHideMode that never disables
shouldDisableHideModeNever(u) == FALSE

shouldDisableHideMode(u) == u.hideUnlinked /\ Cardinality(u.selectedMap) = 0

\* handleToggleSelection of the list-based model
handleToggleSelectionList(u, visible) ==
    LET fi == SelectedItem(u.list, visible)
    IN  IF fi = NoItem THEN [m |-> u, modeChanged |-> FALSE]
        ELSE IF fi.name \in u.selectedMap
        THEN LET u1 == removeFromOrderList([u EXCEPT !.selectedMap = @ \ {fi.name}],
                                           fi.name)
             IN  IF shouldDisableHideMode(u1)
                 THEN [m |-> [u1 EXCEPT !.hideUnlinked = FALSE], modeChanged |-> TRUE]
                 ELSE [m |-> u1, modeChanged |-> FALSE]
        ELSE [m |-> [u EXCEPT !.selectedMap = @ \cup {fi.name},
                              !.selectedOrder = Append(@, fi.name)],
              modeChanged |-> FALSE]

refreshCurrentItem(u) ==
    LET index == u.list.index
    IN  IF index < 0 \/ index >= Len(u.list.items) THEN u
        ELSE LET fi == u.list.items[index + 1]
             IN  [u EXCEPT !.list =
                     SetItem(@, index, fileItem(fi.name, fi.name \in u.selectedMap))]

setCursorToFile(u, fileName) ==
    IF fileName = "" THEN u
    ELSE LET names == [i \in 1..Len(u.list.items) |-> u.list.items[i].name]
         IN  IF IndexOf(names, fileName) >= 0
             THEN [u EXCEPT !.list = Select(@, IndexOf(names, fileName))]
             ELSE u

\* the name of the item under the cursor ("" for none)
currentFileName(u, visible) == SelectedItem(u.list, visible).name

\* the select-all loop of Update
RECURSIVE selectAllList(_, _)
selectAllList(u, items) ==
    IF items = <<>> THEN u
    ELSE IF Head(items).name \in u.selectedMap THEN selectAllList(u, Tail(items))
    ELSE selectAllList([u EXCEPT !.selectedMap = @ \cup {Head(items).name},
                                 !.selectedOrder = Append(@, Head(items).name)],
                       Tail(items))

\* an Update of the list-based model that takes the quit key while loading
UpdateListQuitsLoading(u, k, visible) ==
    LET isFiltering == u.list.filterState = "filtering"
    IN  IF k = "ctrl+c" THEN [m |-> [u EXCEPT !.aborted = TRUE], cmd |-> QuitCmd]
        ELSE IF u.loading THEN [m |-> u, cmd |-> NoCmd]
        ELSE IF k = "enter" /\ ~isFiltering THEN [m |-> u, cmd |-> QuitCmd]
        ELSE IF k = " " /\ ~isFiltering
        THEN LET t == handleToggleSelectionList(u, visible)
             IN  IF t.modeChanged
                 THEN [m |-> t.m, cmd |-> rebuildItemsCmdWithCursor(t.m, currentFileName(u, visible))]
                 ELSE [m |-> refreshCurrentItem(t.m), cmd |-> NoCmd]
        ELSE IF k = "ctrl+a" /\ ~isFiltering
        THEN LET u1 == selectAllList(u, visible)
             IN  [m |-> u1, cmd |-> rebuildItemsCmdWithCursor(u1, currentFileName(u, visible))]
        ELSE IF k = "ctrl+d" /\ ~isFiltering
        THEN LET u1 == [u EXCEPT !.selectedMap = {}, !.selectedOrder = <<>>]
                 u2 == IF shouldDisableHideMode(u1)
                       THEN [u1 EXCEPT !.hideUnlinked = FALSE] ELSE u1
             IN  [m |-> u2, cmd |-> rebuildItemsCmdWithCursor(u2, currentFileName(u, visible))]
        ELSE IF k = "h" /\ ~isFiltering /\ Cardinality(u.selectedMap) > 0
        THEN LET u1 == [u EXCEPT !.hideUnlinked = ~@]
             IN  [m |-> u1, cmd |-> rebuildItemsCmdWithCursor(u1, currentFileName(u, visible))]
        ELSE LET r == listUpdate(u.list, k, visible)
             IN  [m |-> [u EXCEPT !.list = r.l],
                  cmd |-> IF r.cmd = "quit" THEN QuitCmd ELSE NoCmd]

\* multiSelectModel.Update of the list-based model for a tea.KeyMsg, visible
\* being the items the list shows
UpdateList(u, k, visible) ==
    LET isFiltering == u.list.filterState = "filtering"
    IN  IF u.loading THEN [m |-> u, cmd |-> NoCmd]
        ELSE IF k = "ctrl+c" THEN [m |-> [u EXCEPT !.aborted = TRUE], cmd |-> QuitCmd]
        ELSE IF k = "enter" /\ ~isFiltering THEN [m |-> u, cmd |-> QuitCmd]
        ELSE IF k = " " /\ ~isFiltering
        THEN LET t == handleToggleSelectionList(u, visible)
             IN  IF t.modeChanged
                 THEN [m |-> t.m, cmd |-> rebuildItemsCmdWithCursor(t.m, currentFileName(u, visible))]
                 ELSE [m |-> refreshCurrentItem(t.m), cmd |-> NoCmd]
        ELSE IF k = "ctrl+a" /\ ~isFiltering
        THEN LET u1 == selectAllList(u, visible)
             IN  [m |-> u1, cmd |-> rebuildItemsCmdWithCursor(u1, currentFileName(u, visible))]
        ELSE IF k = "ctrl+d" /\ ~isFiltering
        THEN LET u1 == [u EXCEPT !.selectedMap = {}, !.selectedOrder = <<>>]
                 u2 == IF shouldDisableHideMode(u1)
                       THEN [u1 EXCEPT !.hideUnlinked = FALSE] ELSE u1
             IN  [m |-> u2, cmd |-> rebuildItemsCmdWithCursor(u2, currentFileName(u, visible))]
        ELSE IF k = "h" /\ ~isFiltering /\ Cardinality(u.selectedMap) > 0
        THEN LET u1 == [u EXCEPT !.hideUnlinked = ~@]
             IN  [m |-> u1, cmd |-> rebuildItemsCmdWithCursor(u1, currentFileName(u, visible))]
        ELSE LET r == listUpdate(u.list, k, visible)
             IN  [m |-> [u EXCEPT !.list = r.l],
                  cmd |-> IF r.cmd = "quit" THEN QuitCmd ELSE NoCmd]

\* an Update for a filesLoadedMsg that takes the files and not the enabled
\* names
UpdateFilesLoadedUnselected(u, msg) ==
    IF msg.err # ""
    THEN [m |-> [u EXCEPT !.err = msg.err, !.aborted = TRUE], cmd |-> QuitCmd]
    ELSE LET u1 == [u EXCEPT !.availableFiles = msg.availableFiles]
             items == buildItemList(u1.availableFiles, u1.hideUnlinked, u1.selectedMap)
         IN  [m |-> [u1 EXCEPT !.list = SetItems(@, items), !.loading = FALSE],
              cmd |-> NoCmd]

\* multiSelectModel.Update for a filesLoadedMsg
UpdateFilesLoaded(u, msg) ==
    IF msg.err # ""
    THEN [m |-> [u EXCEPT !.err = msg.err, !.aborted = TRUE], cmd |-> QuitCmd]
    ELSE LET u1 == [u EXCEPT !.availableFiles = msg.availableFiles,
                             !.selectedMap = @ \cup Range(msg.enabledFiles),
                             !.selectedOrder = @ \o msg.enabledFiles]
             items == buildItemList(u1.availableFiles, u1.hideUnlinked, u1.selectedMap)
         IN  [m |-> [u1 EXCEPT !.list = SetItems(@, items), !.loading = FALSE],
              cmd |-> NoCmd]

\* multiSelectModel.Update for an itemsRefreshedMsg
UpdateItemsRefreshed(u, msg) ==
    setCursorToFile([u EXCEPT !.list = SetItems(@, msg.items)], msg.cursorFileName)

\* what ShowFileSelect returns once the program has ended with the model u
ShowFileSelect(u) ==
    IF u.aborted THEN [err |-> "user aborted", list |-> <<>>]
    ELSE IF u.err # "" THEN [err |-> u.err, list |-> <<>>]
    ELSE IF Len(u.availableFiles) = 0
    THEN [err |-> "no files available to enable", list |-> <<>>]
    ELSE [err |-> "", list |-> u.selectedOrder]

\* confirmModel.Update for a tea.KeyMsg
UpdateConfirm(c, k) ==
    IF k = "ctrl+c" THEN [c EXCEPT !.aborted = TRUE, !.quit = TRUE]
    ELSE IF k = "enter" THEN [c EXCEPT !.quit = TRUE]
    ELSE IF k = "left" THEN [c EXCEPT !.selected = TRUE]
    ELSE IF k = "right" THEN [c EXCEPT !.selected = FALSE]
    ELSE IF k \in {"y", "Y"} THEN [c EXCEPT !.selected = TRUE, !.quit = TRUE]
    ELSE IF k \in {"n", "N"} THEN [c EXCEPT !.selected = FALSE, !.quit = TRUE]
    ELSE c

\* the model ShowConfirmation creates
NewConfirm == [selected |-> TRUE, aborted |-> FALSE, quit |-> FALSE]

\* what ShowConfirmation returns once the program has ended with the model c
ShowConfirmation(c) ==
    IF c.aborted THEN [err |-> "user aborted", confirmed |-> FALSE]
    ELSE [err |-> "", confirmed |-> c.selected]

(***************************************************************************)
(* State.                                                                  *)
(***************************************************************************)
VARIABLES
    sourceDir,   \* cfg.SourceDir, as given on the command line
    targetDir,   \* cfg.TargetDir, as given on the command line
    fs,          \* the file system: directory -> name -> entry
    denied,      \* the names whose entries the process may not unlink or create
    opName,      \* the reconciler operation performed last ("" before the first)
    opArg,       \* its argument: a name, or a list of names
    pre,         \* the file system before it
    err,         \* the error it returned ("" for none)
    trace,       \* the calls and the mutations it made, in order
    m,           \* the multiSelectModel of the selection session
    key,         \* the key event handled last ("" before the first)
    prev,        \* the model before that key event
    pc,          \* where run() is: validate, confirm, clean, select, apply, exit
    startFS,     \* the file system when the program started
    orphaned,    \* the orphaned list run() holds
    dlg,         \* the confirmModel of the confirmation prompt
    ui,          \* the list-based multiSelectModel of ShowFileSelect
    uiQuit,      \* its program has received tea.Quit
    cmds,        \* the rebuild commands and itemsRefreshedMsg in flight
    returned,    \* what ShowFileSelect returned to run()
    outcome      \* how run() ended ("" while it is running)

fsVars == <<sourceDir, targetDir, fs, denied>>
opVars == <<opName, opArg, pre, err, trace>>
selVars == <<m, key, prev>>
runVars == <<pc, startFS, orphaned, dlg, ui, uiQuit, cmds, returned, outcome>>

AbsSrc == Abs(sourceDir).c
AbsTgt == Abs(targetDir).c

\* the lists of names handed to the batch operations
NameSeqs == UNION {[1..k -> Names] : k \in 0..MaxSel}

\* the link targets found in the target directory at the start: for a, the
\* relative and the absolute path of src/a, another source file, and a missing
\* path outside src; for b, the relative path of src/b, an existing directory
\* outside src, and a missing path outside src
InitialTargets(src, tgt, n) ==
    IF n = "a"
    THEN { Rel(tgt, Join(src, FileName(n))).p,
           Abs(Join(src, FileName(n))),
           Abs(Join(src, FileName("b"))),
           P(TRUE, <<"wd", "gone", n>>) }
    ELSE { Rel(tgt, Join(src, FileName(n))).p,
           P(TRUE, <<"wd">>),
           P(TRUE, <<"wd", "gone", n>>) }

\* the entries found in the source directory at the start
SourceEntries(n) == IF n = "a" THEN {File} ELSE {None, File, Dir}

\* the entries found in the target directory at the start
TargetEntries(src, tgt, n) ==
    (IF n = "a" THEN {None} ELSE {None, File, DirFull})
        \cup {Link(t) : t \in InitialTargets(src, tgt, n)}

\* the file systems a run may start with
InitialFS(src, tgt) ==
    { [d \in AllDirs |->
          IF d = Abs(src).c THEN se
          ELSE IF d = Abs(tgt).c THEN te
          ELSE EmptyDir] :
        se \in {x \in [Names -> UNION {SourceEntries(n) : n \in Names}] :
                   \A n \in Names : x[n] \in SourceEntries(n)},
        te \in {x \in [Names -> UNION {TargetEntries(src, tgt, n) : n \in Names}] :
                   \A n \in Names : x[n] \in TargetEntries(src, tgt, n)} }

InitFS ==
    /\ \E dp \in DirPairs :
          /\ sourceDir = dp[1]
          /\ targetDir = dp[2]
          /\ fs \in InitialFS(dp[1], dp[2])
    /\ denied \in {{}, {"a"}}

InitOp ==
    /\ opName = ""
    /\ opArg = <<>>
    /\ pre = fs
    /\ err = ""
    /\ trace = <<>>

\* the bookkeeping of an operation that yields r
Performed(name, arg, r) ==
    /\ fs' = r.fs
    /\ opName' = name
    /\ opArg' = arg
    /\ pre' = fs
    /\ err' = r.err
    /\ trace' = r.trace
    /\ UNCHANGED <<sourceDir, targetDir, denied>>
    /\ UNCHANGED <<selVars, runVars>>

DoCreateSymlink ==
    \E n \in Names :
        \E r \in {CreateSymlink(fs, denied, sourceDir, targetDir, n)} :
            Performed("CreateSymlink", n, r)

DoRemoveSymlink ==
    \E n \in Names :
        \E r \in {RemoveSymlink(fs, denied, targetDir, n)} :
            Performed("RemoveSymlink", n, r)

DoCleanOrphanedSymlinks ==
    \E names \in NameSeqs :
        \E r \in {CleanOrphanedSymlinks(fs, denied, targetDir, names)} :
            Performed("CleanOrphanedSymlinks", names, r)

DoValidateSymlinks ==
    \E names \in Perms(ValidateSymlinks(fs, sourceDir, targetDir)) :
        Performed("ValidateSymlinks", names, R(fs, "", <<>>))

DoGetEnabledFiles ==
    \E names \in Perms(GetEnabledFiles(fs, sourceDir, targetDir)) :
        Performed("GetEnabledFiles", names, R(fs, "", <<>>))

DoApplyChanges ==
    \E selectedFiles \in NameSeqs :
        \E currentlyEnabled \in Perms(GetEnabledFiles(fs, sourceDir, targetDir)) :
            \E r \in {ApplyChanges(fs, denied, sourceDir, targetDir, selectedFiles,
                                   currentlyEnabled)} :
                Performed("ApplyChanges", selectedFiles, r)

\* the characters typed in Filtering mode
FilterChars == {"g", "G", "h", "/"}

\* the lists of enabled names a selection session starts from
InitialEnabled ==
    {<<>>, <<"hg", "gh">>, <<"G", Stray>>}

\* no selection session
NoSession ==
    /\ m = NewModel(Choices, <<>>, MaxVisibleItems)
    /\ key = ""
    /\ prev = m

\* a selection session created by ShowMultiSelect
InitSession ==
    /\ \E currentlyEnabled \in InitialEnabled :
          m = NewModel(Choices, currentlyEnabled, MaxVisibleItems)
    /\ key = ""
    /\ prev = m

\* the program delivers one key event to Update
HandleKey ==
    /\ ~m.quit
    /\ \E k \in Keys :
          /\ OneChar(k) /\ m.filtering =>
                 k \in FilterChars /\ Len(m.filter) < MaxFilterLen
          /\ m' = Update(m, k)
          /\ key' = k
    /\ prev' = m
    /\ UNCHANGED <<fsVars, opVars, runVars>>

\* run() has not started
NoRun ==
    /\ pc = "validate"
    /\ startFS = fs
    /\ orphaned = <<>>
    /\ dlg = NewConfirm
    /\ ui = NewFileSelect
    /\ uiQuit = FALSE
    /\ cmds = <<>>
    /\ returned = [err |-> "", list |-> <<>>]
    /\ outcome = ""

vars == <<fsVars, opVars, selVars, runVars>>

Init == InitFS /\ InitOp /\ NoSession /\ NoRun

Next ==
    \/ DoCreateSymlink
    \/ DoRemoveSymlink
    \/ DoCleanOrphanedSymlinks
    \/ DoApplyChanges
    \/ DoValidateSymlinks
    \/ DoGetEnabledFiles

\* the reconciler's operations, in any order, from any target directory
Spec == Init /\ [][Next]_vars

\* a selection session, with a file system it does not touch
InitSel ==
    /\ sourceDir = P(TRUE, <<"wd", "s">>)
    /\ targetDir = P(TRUE, <<"wd", "t">>)
    /\ fs = [d \in AllDirs |-> EmptyDir]
    /\ denied = {}
    /\ InitOp /\ InitSession /\ NoRun

\* one selection session of the custom list: key events until it quits
SpecSel == InitSel /\ [][HandleKey]_vars

(***************************************************************************)
(* The orchestrator: run() of main.go, from ValidateSymlinks to            *)
(* ApplyChanges, with the confirmation prompt and the selection session    *)
(* of ShowFileSelect in between.                                           *)
(***************************************************************************)
RunSrc == P(TRUE, <<"wd", "s">>)
RunTgt == P(TRUE, <<"wd", "t">>)

\* the file systems run() starts with: the source directory holds a and b
\* with b linked or not, a alone with a link left for b, a and b with an
\* orphaned link named a, or nothing at all
RunFS ==
    LET orphan == Link(P(TRUE, <<"wd", "gone", "a">>))
        linkb == Link(Rel(RunTgt, Join(RunSrc, FileName("b"))).p)
        dir(a, b) == [n \in Names |-> IF n = "a" THEN a ELSE b]
        mk(sa, sb, ta, tb) ==
            [d \in AllDirs |->
                IF d = RunSrc.c THEN dir(sa, sb)
                ELSE IF d = RunTgt.c THEN dir(ta, tb)
                ELSE EmptyDir]
    IN  { mk(File, File, None, None),
          mk(File, File, None, linkb),
          mk(File, None, None, linkb),
          mk(File, File, orphan, None),
          mk(None, None, None, None) }

InitRun ==
    /\ sourceDir = RunSrc
    /\ targetDir = RunTgt
    /\ fs \in RunFS
    /\ denied = {}
    /\ InitOp
    /\ NoSession
    /\ NoRun

\* the keys of the confirmation prompt
ConfirmKeys == {"ctrl+c", "enter", "left", "right", "y", "n", "esc"}

\* the keys of the selection session
FileSelectKeys ==
    {"ctrl+c", "enter", " ", "ctrl+a", "ctrl+d", "h", "/", "esc", "q", "up", "down"}

\* run() ends
Exit(how) ==
    /\ pc' = "exit"
    /\ outcome' = how

\* run() calls ValidateSymlinks and, with orphans, opens the prompt
RunValidate ==
    /\ pc = "validate"
    /\ \E o \in Perms(ValidateSymlinks(fs, sourceDir, targetDir)) :
          /\ orphaned' = o
          /\ pc' = IF Len(o) > 0 THEN "confirm" ELSE "select"
    /\ UNCHANGED <<fsVars, opVars, selVars, startFS, dlg, ui, uiQuit, cmds,
                   returned, outcome>>

\* a key event of the confirmation prompt; when its program ends, run() takes
\* the answer of ShowConfirmation
ConfirmKey ==
    /\ pc = "confirm"
    /\ \E k \in ConfirmKeys :
          /\ key' = k
          /\ dlg' = UpdateConfirm(dlg, k)
          /\ IF ~dlg'.quit THEN UNCHANGED <<pc, outcome>>
             ELSE IF ShowConfirmation(dlg').err # "" THEN Exit("aborted at the prompt")
             ELSE /\ pc' = IF ShowConfirmation(dlg').confirmed THEN "clean" ELSE "select"
                  /\ UNCHANGED outcome
    /\ UNCHANGED <<fsVars, opVars, m, prev, startFS, orphaned, ui, uiQuit, cmds,
                   returned>>

\* run() calls CleanOrphanedSymlinks
RunClean ==
    /\ pc = "clean"
    /\ \E r \in {CleanOrphanedSymlinks(fs, denied, targetDir, orphaned)} :
           /\ fs' = r.fs
           /\ opName' = "CleanOrphanedSymlinks"
           /\ opArg' = orphaned
           /\ pre' = fs
           /\ err' = r.err
           /\ trace' = r.trace
           /\ IF r.err # "" THEN Exit("error")
              ELSE pc' = "select" /\ UNCHANGED outcome
    /\ UNCHANGED <<sourceDir, targetDir, denied, selVars, startFS, orphaned, dlg, ui,
                   uiQuit, cmds, returned>>

\* loadFilesCmd: the listing of the source directory and the enabled names,
\* or the error of a listing that failed
loadFilesCmd(f, src, tgt, enabledFiles, failed) ==
    IF failed
    THEN [availableFiles |-> <<>>, enabledFiles |-> <<>>, err |-> "failed to load files"]
    ELSE [availableFiles |-> ListAvailableFiles(f, src), enabledFiles |-> enabledFiles,
          err |-> ""]

\* the function a rebuild command runs: buildItemList over the model it
\* holds, reading the selection map as it is when the command runs
runRebuild(c, currentMap) ==
    [kind |-> "refreshed",
     items |-> buildItemList(c.availableFiles, c.hideUnlinked,
                             IF c.shared THEN currentMap ELSE c.selectedMap),
     cursorFileName |-> c.cursorFileName]

\* the commands in flight once an Update has replaced the selection map:
\* those made before keep the map they were made with
Detach(cs, oldMap) ==
    [i \in 1..Len(cs) |->
        IF cs[i].kind = "rebuild" /\ cs[i].shared
        THEN [cs[i] EXCEPT !.shared = FALSE, !.selectedMap = oldMap]
        ELSE cs[i]]

\* the program of ShowFileSelect delivers the filesLoadedMsg of Init's command
FilesLoaded ==
    /\ pc = "select" /\ ~uiQuit /\ ui.loading
    /\ \E e \in Perms(GetEnabledFiles(fs, sourceDir, targetDir)), failed \in BOOLEAN :
          LET r == UpdateFilesLoaded(ui, loadFilesCmd(fs, sourceDir, targetDir, e, failed))
          IN  /\ ui' = r.m
              /\ uiQuit' = (r.cmd = QuitCmd)
    /\ key' = ""
    /\ UNCHANGED <<fsVars, opVars, m, prev, pc, startFS, orphaned, dlg, cmds, returned,
                   outcome>>

\* the program delivers a key event to Update; a key that has the list
\* rebuilt comes once the rebuild before it has arrived; a write to the
\* selection map that a command in flight reads at the same time may end
\* the process
FileSelectKey ==
    /\ pc = "select" /\ ~uiQuit
    /\ \E k \in FileSelectKeys, visible \in VisibleItems(ui.list) :
       \E r \in {UpdateList(ui, k, visible)} :
          LET replaced == k = "ctrl+d" /\ ~ui.loading /\ ui.list.filterState # "filtering"
              written == ~replaced /\ r.m.selectedMap # ui.selectedMap
              racing == \E i \in 1..Len(cmds) :
                            cmds[i].kind = "rebuild" /\ cmds[i].shared
          IN  /\ r.cmd.kind = "rebuild" => cmds = <<>>
              /\ key' = k
              /\ ui' = r.m
              /\ uiQuit' = (r.cmd = QuitCmd)
              /\ cmds' = LET cs == IF replaced THEN Detach(cmds, ui.selectedMap) ELSE cmds
                         IN  IF r.cmd.kind = "rebuild" THEN Append(cs, r.cmd) ELSE cs
              /\ \/ UNCHANGED <<pc, outcome>>
                 \/ written /\ racing /\ Exit("fatal error")
    /\ UNCHANGED <<fsVars, opVars, m, prev, startFS, orphaned, dlg, returned>>

\* a rebuild command runs and sends its itemsRefreshedMsg
RunRebuild ==
    /\ pc = "select" /\ ~uiQuit
    /\ \E i \in 1..Len(cmds) :
          /\ cmds[i].kind = "rebuild"
          /\ cmds' = [cmds EXCEPT ![i] = runRebuild(cmds[i], ui.selectedMap)]
    /\ UNCHANGED <<fsVars, opVars, selVars, pc, startFS, orphaned, dlg, ui,
                   uiQuit, returned, outcome>>

\* the program delivers an itemsRefreshedMsg to Update
ItemsRefreshed ==
    /\ pc = "select" /\ ~uiQuit
    /\ \E i \in 1..Len(cmds) :
          /\ cmds[i].kind = "refreshed"
          /\ ui' = UpdateItemsRefreshed(ui, cmds[i])
          /\ cmds' = RemoveAt(cmds, i - 1)
    /\ key' = ""
    /\ UNCHANGED <<fsVars, opVars, m, prev, pc, startFS, orphaned, dlg, uiQuit, returned,
                   outcome>>

\* the program has ended: ShowFileSelect returns and run() goes on
FileSelectReturns ==
    /\ pc = "select" /\ uiQuit
    /\ returned' = ShowFileSelect(ui)
    /\ cmds' = <<>>
    /\ IF returned'.err = "user aborted" THEN Exit("aborted in the selection")
       ELSE IF returned'.err # "" THEN Exit("error")
       ELSE pc' = "apply" /\ UNCHANGED outcome
    /\ UNCHANGED <<fsVars, opVars, selVars, startFS, orphaned, dlg, ui, uiQuit>>

\* run() calls ApplyChanges with the selection
RunApply ==
    /\ pc = "apply"
    /\ \E currentlyEnabled \in Perms(GetEnabledFiles(fs, sourceDir, targetDir)) :
          \E r \in {ApplyChanges(fs, denied, sourceDir, targetDir, returned.list,
                                currentlyEnabled)} :
              /\ fs' = r.fs
              /\ opName' = "ApplyChanges"
              /\ opArg' = returned.list
              /\ pre' = fs
              /\ err' = r.err
              /\ trace' = r.trace
              /\ Exit(IF r.err # "" THEN "error" ELSE "success")
    /\ UNCHANGED <<sourceDir, targetDir, denied, selVars, startFS, orphaned, dlg, ui,
                   uiQuit, cmds, returned>>

NextRun ==
    \/ RunValidate
    \/ ConfirmKey
    \/ RunClean
    \/ FilesLoaded
    \/ FileSelectKey
    \/ RunRebuild
    \/ ItemsRefreshed
    \/ FileSelectReturns
    \/ RunApply

\* one run of the program
SpecRun == InitRun /\ [][NextRun]_vars

(***************************************************************************)
(* Claims about the reconciler, checked under Spec.                        *)
(***************************************************************************)
TgtEntry(f, n) == f[AbsTgt][n]

ExistsInSource(f, n) == Stat(f, Join(sourceDir, FileName(n))) = "ok"

\* C1: after a successful ApplyChanges(src, tgt, S), with every name of S
\* existing in the source directory, GetEnabledFiles(src, tgt) is exactly S.
C1_RoundTrip ==
    (/\ opName = "ApplyChanges"
     /\ err = ""
     /\ \A n \in Range(opArg) : ExistsInSource(pre, n))
    => GetEnabledFiles(fs, sourceDir, targetDir) = Range(opArg)

\* C2: an ApplyChanges that repeats a successful ApplyChanges, with the same
\* selectedNames, mutates nothing and leaves the enabled set as it was.
C2_Idempotent ==
    [][(/\ opName = "ApplyChanges"
        /\ err = ""
        /\ opName' = "ApplyChanges"
        /\ opArg' = opArg)
       => /\ trace' = <<>>
          /\ fs' = fs
          /\ GetEnabledFiles(fs', sourceDir, targetDir)
               = GetEnabledFiles(fs, sourceDir, targetDir)]_vars

\* C3: no reconciler operation removes or replaces a regular file of the
\* target directory.
C3_RegularFilesUntouched ==
    \A n \in Names :
        TgtEntry(pre, n).kind = "file" => TgtEntry(fs, n) = TgtEntry(pre, n)

\* C4: RemoveSymlink succeeds and changes nothing when no entry exists,
\* fails and changes nothing when the entry is not a symbolic link, and
\* removes the entry (and nothing else) only when it is a symbolic link.
C4_RemoveSymlinkGuard ==
    opName = "RemoveSymlink" =>
        LET e == TgtEntry(pre, opArg)
        IN  /\ e.kind = "none" => (err = "" /\ fs = pre)
            /\ e.kind \notin {"none", "link"} => (err # "" /\ fs = pre)
            /\ e.kind = "link" =>
                  \/ (err = "" /\ fs = SetEntry(pre, AbsTgt, opArg, None))
                  \/ (err # "" /\ fs = pre)
            /\ fs # pre => e.kind = "link"

\* a RemoveSymlink on a regular file has been refused
C4_Witness ==
    /\ opName = "RemoveSymlink"
    /\ TgtEntry(pre, opArg).kind = "file"
    /\ err = "is not a symlink, refusing to remove"
    /\ TgtEntry(fs, opArg).kind = "file"

\* C11: ValidateSymlinks reports a name if and only if the entry of that
\* name in the target directory is a symbolic link whose target (as is when
\* absolute, otherwise joined with targetDir) does not exist, wherever that
\* target lies; links whose target exists and entries that are not links
\* are not reported.
C11_OrphanDefinition ==
    opName = "ValidateSymlinks" =>
        \A n \in Names :
            n \in Range(opArg) <=>
                LET e == TgtEntry(fs, n)
                    t == e.target
                IN  /\ e.kind = "link"
                    /\ Stat(fs, IF t.abs THEN t ELSE Join(targetDir, t)) = "notexist"

\* ValidateSymlinks has reported a, a link to a missing path outside the
\* source directory, and not b, a link to an existing directory
C11_Witness ==
    /\ opName = "ValidateSymlinks"
    /\ opArg = <<"a">>
    /\ TgtEntry(fs, "a") = Link(P(TRUE, <<"wd", "gone", "a">>))
    /\ TgtEntry(fs, "b") = Link(P(TRUE, <<"wd">>))

\* C12: after a successful CleanOrphanedSymlinks(targetDir, orphaned) with
\* orphaned the names ValidateSymlinks reported, ValidateSymlinks reports
\* nothing, the reported links are gone and every other entry of the target
\* directory is as it was.
C12_CleanRemovesOrphans ==
    (/\ opName = "CleanOrphanedSymlinks"
     /\ err = ""
     /\ Range(opArg) = ValidateSymlinks(pre, sourceDir, targetDir))
    => /\ ValidateSymlinks(fs, sourceDir, targetDir) = {}
       /\ \A n \in Range(opArg) : TgtEntry(fs, n) = None
       /\ \A n \in Names \ Range(opArg) : TgtEntry(fs, n) = TgtEntry(pre, n)

\* the orphaned link a has been cleaned and the link b, whose target
\* exists, is still there
C12_Witness ==
    /\ opName = "CleanOrphanedSymlinks"
    /\ err = ""
    /\ opArg = <<"a">>
    /\ ValidateSymlinks(pre, sourceDir, targetDir) = {"a"}
    /\ TgtEntry(fs, "a") = None
    /\ TgtEntry(fs, "b") = Link(P(TRUE, <<"wd">>))

\* C13: GetEnabledFiles contains a name if and only if the entry of that
\* name in the target directory is a symbolic link whose target, taken from
\* the root when absolute and from the absolute target directory otherwise,
\* and cleaned, is the absolute cleaned path of src/name.
C13_EnabledSet ==
    opName = "GetEnabledFiles" =>
        \A n \in Names :
            n \in Range(opArg) <=>
                LET e == TgtEntry(fs, n)
                    t == e.target
                IN  /\ e.kind = "link"
                    /\ Clean(P(TRUE, IF t.abs THEN t.c ELSE AbsTgt \o t.c))
                         = P(TRUE, Append(AbsSrc, n))

\* GetEnabledFiles has returned b, linked to src/b, and not a, linked to
\* the same file src/b
C13_Witness ==
    /\ opName = "GetEnabledFiles"
    /\ opArg = <<"b">>
    /\ TgtEntry(fs, "a") = Link(P(TRUE, Append(AbsSrc, "b")))
    /\ TgtEntry(fs, "b").kind = "link"

\* the source and target directories are distinct absolute directories with
\* the same parent
AbsSiblings ==
    /\ sourceDir.abs /\ targetDir.abs
    /\ AbsSrc # AbsTgt
    /\ SubSeq(AbsSrc, 1, Len(AbsSrc) - 1) = SubSeq(AbsTgt, 1, Len(AbsTgt) - 1)

\* the target CreateSymlink is to write by the stated rule: the relative path
\* from targetDir to src/name if it is relative and strictly shorter than
\* src/name, and src/name otherwise
RuleTarget(n) ==
    LET sourcePath == Join(sourceDir, FileName(n))
        rel == Rel(targetDir, sourcePath)
    IN  IF rel.ok /\ ~rel.p.abs /\ StrLen(rel.p) < StrLen(sourcePath)
        THEN rel.p ELSE sourcePath

C18_SourceNeverMutated ==
    Validate(pre, sourceDir, targetDir) =>
        \A n \in Names : EntryAt(fs, AbsSrc, n) = EntryAt(pre, AbsSrc, n)

\* C19: the target a successful CreateSymlink(src, tgt, name) writes, read
\* from the target directory, denotes src/name, and name is in
\* GetEnabledFiles(src, tgt) right afterwards, for absolute and for relative
\* directory arguments.
C19_CreatedLinksResolve ==
    (opName = "CreateSymlink" /\ err = "") =>
        /\ TgtEntry(fs, opArg).kind = "link"
        /\ ResolveOS(AbsTgt, TgtEntry(fs, opArg).target) = P(TRUE, Append(AbsSrc, opArg))
        /\ opArg \in GetEnabledFiles(fs, sourceDir, targetDir)

(***************************************************************************)
(* Claims about the custom-list selection model, checked under SpecSel.    *)
(***************************************************************************)
\* the visible sequence as the specification derives it: the choices whose
\* lowercase form contains the lowercase filter text, the selected ones only
\* in hideUnlinked mode, in the order of the choices
DerivedVisible(mm) ==
    LET matches(c) ==
            \E i \in 0..(Len(Chars(c)) - Len(mm.filter)) :
                \A j \in 1..Len(mm.filter) :
                    LowerChar(Chars(c)[i + j]) = LowerChar(mm.filter[j])
        keep(c) == (mm.filter # <<>> => matches(c))
                     /\ (mm.hideUnlinked => c \in mm.selected)
    IN  SelectSeq2(mm.choices, {c \in Range(mm.choices) : keep(c)})

\* the item under the cursor when a key event arrives ("" for none)
CursorItem(mm) ==
    LET visible == computeVisible(mm)
    IN  IF mm.cursor >= 0 /\ mm.cursor < Len(visible) THEN visible[mm.cursor + 1] ELSE ""

\* the last key event was a ToggleSelection on the item x
Toggled(x) == key = " " /\ ~prev.filtering /\ x # "" /\ CursorItem(prev) = x

\* C7: selectionOrder holds exactly the selected names, each once; a
\* ToggleSelection that deselects an item removes it and keeps the relative
\* order of the others, one that selects an item appends it at the end; the
\* keys that select or deselect nothing leave the order alone.
C7_SelectionOrder ==
    /\ Range(m.selectedOrder) = m.selected
    /\ \A i, j \in 1..Len(m.selectedOrder) :
          m.selectedOrder[i] = m.selectedOrder[j] => i = j
    /\ \A x \in Range(Choices) :
          Toggled(x) =>
              IF x \in prev.selected
              THEN m.selectedOrder
                     = SelectSeq2(prev.selectedOrder, Range(prev.selectedOrder) \ {x})
              ELSE m.selectedOrder = Append(prev.selectedOrder, x)
    /\ (key \notin {"", " ", "ctrl+a", "ctrl+d"} \/ (key # "" /\ prev.filtering))
          => m.selectedOrder = prev.selectedOrder

\* C7 witness: the last key event selected gh while G, selected earlier, was
\* the whole order: gh is appended and the order is [G, gh].
C7_Witness ==
    /\ Toggled("gh")
    /\ prev.selectedOrder = <<"G">>
    /\ m.selectedOrder = <<"G", "gh">>
    /\ m.selected = {"G", "gh"}

\* C8: after any key event the cursor is 0 when the visible sequence derived
\* from the filter text, hideUnlinked and the selection is empty, and within
\* 0 .. len(visible)-1 otherwise.
C8_CursorInRange ==
    key # "" =>
        LET visible == DerivedVisible(m)
        IN  IF visible = <<>> THEN m.cursor = 0
            ELSE m.cursor >= 0 /\ m.cursor <= Len(visible) - 1

\* C9: a freshly computed visible sequence (invalid cache, filtered list
\* maintained by updateFiltered) is the sequence the specification derives.
C9_VisibleDerivation ==
    computeVisible(m) = DerivedVisible(m)

\* C9 witness: the filter "G" matches the lowercase names, hideUnlinked keeps
\* the selected ones, and the order is the order of the choices.
C9_Witness ==
    /\ m.filter = <<"G">>
    /\ m.hideUnlinked
    /\ m.selectedOrder = <<"hg", "gh">>
    /\ computeVisible(m) = <<"gh", "hg">>

(***************************************************************************)
(* Claims about the orchestrator and the list-based selection session,     *)
(* checked under SpecRun.                                                  *)
(***************************************************************************)
\* C5: in every run that ends by a user abort, at the confirmation prompt or
\* in the selection UI, the symlinks of the target directory are as they were
\* when the program started.
C5_AbortChangesNothing ==
    LET symlinks(f) ==
            [n \in {x \in Names : TgtEntry(f, x).kind = "link"} |-> TgtEntry(f, n).target]
        userAborted ==
            \/ outcome = "aborted at the prompt"
            \/ outcome = "aborted in the selection" /\ ui.err = ""
    IN  pc = "exit" /\ userAborted => symlinks(fs) = symlinks(startFS)

\* C6: a session that ends with aborted = true makes ShowFileSelect return
\* the "user aborted" error and no list, and run() does not call
\* ApplyChanges; a list is returned only when the session ended by Confirm
\* (the enter key).
C6_AbortedYieldsNoSelection ==
    pc \in {"apply", "exit"} /\ uiQuit =>
        /\ ui.aborted =>
              /\ returned = [err |-> "user aborted", list |-> <<>>]
              /\ pc = "exit" /\ outcome = "aborted in the selection"
              /\ opName # "ApplyChanges"
        /\ returned.err = "" => key = "enter"

\* C10: when hideUnlinked is true and exactly one item is selected, a
\* ToggleSelection that deselects it leaves hideUnlinked false.
C10_HideModeAutoDisable ==
    [][(/\ pc = "select" /\ ~uiQuit /\ ~ui.loading
        /\ ui.hideUnlinked /\ Cardinality(ui.selectedMap) = 1
        /\ key' = " " /\ ui'.selectedMap = {})
       => ~ui'.hideUnlinked]_vars

\* C10 witness: the toggle has deselected the last selected item in
\* hideUnlinked mode: the mode is off and the rebuild that the mode change
\* asks for, with the cursor on the toggled file, is in flight.
C10_Witness ==
    /\ pc = "select" /\ key = " "
    /\ ui.selectedMap = {} /\ ~ui.hideUnlinked
    /\ cmds = <<[kind |-> "rebuild", availableFiles |-> <<"a", "b">>,
                 hideUnlinked |-> FALSE, shared |-> TRUE, selectedMap |-> {},
                 cursorFileName |-> "b"]>>

\* C14: when the filesLoadedMsg without error has been handled, the session
\* has left Loading with the files of the source listing as its choices,
\* exactly the enabled names selected, each once in the selection order, and
\* hideUnlinked false.
C14_PreSelection ==
    [][(pc = "select" /\ ui.loading /\ ~ui'.loading) =>
          LET enabled == GetEnabledFiles(fs, sourceDir, targetDir)
          IN  /\ ui'.availableFiles = ListAvailableFiles(fs, sourceDir)
              /\ ui'.selectedMap = enabled
              /\ Range(ui'.selectedOrder) = enabled
              /\ Len(ui'.selectedOrder) = Cardinality(enabled)
              /\ ~ui'.hideUnlinked]_vars

\* the load has completed with files a and b and the enabled name b, and no
\* key has been handled since
C14_Witness ==
    /\ pc = "select" /\ ~ui.loading /\ ~uiQuit /\ key = "" /\ cmds = <<>>
    /\ ui.availableFiles = <<"a", "b">>
    /\ ui.selectedMap = {"b"}
    /\ ui.selectedOrder = <<"b">>
    /\ ui.list.items = <<fileItem("a", FALSE), fileItem("b", TRUE)>>

\* C15: with no files in the source directory the selection never becomes
\* interactive: once the load has completed its session has ended, and
\* ShowFileSelect returns the "no files available" error.
C15_EmptySourceFailsUpFront ==
    (/\ ListAvailableFiles(fs, sourceDir) = <<>>
     /\ pc = "select"
     /\ ~ui.loading)
    => /\ uiQuit
       /\ ShowFileSelect(ui).err = "no files available to enable"

\* C16: when the load has failed the session has ended, and what
\* ShowFileSelect returns is the load error, not "user aborted".
C16_LoadFailureReported ==
    ui.err # "" =>
        /\ uiQuit
        /\ pc = "exit" => (returned.err = ui.err /\ outcome = "error")

\* C20: in the model Update returns, the one View renders, getVisibleChoices
\* yields the sequence derived from the current filter text, hideUnlinked and
\* selection, never one computed before one of them changed (checked under
\* SpecSel).
C20_CacheCoherent ==
    getVisibleChoices(m) = DerivedVisible(m)

(***************************************************************************)
(* Further claims about the custom-list selection model, checked under     *)
(* SpecSel.                                                                *)
(***************************************************************************)
\* C21: when a hide-toggle key or a deselecting ToggleSelection has changed
\* hideUnlinked, the cursor is the index, in the new visible sequence, of the
\* item it was on before if that item is still visible, and within the new
\* bounds (0 for an empty sequence) otherwise.
C21_CursorFollows ==
    (key \in {"h", " "} /\ ~prev.filtering /\ m.hideUnlinked # prev.hideUnlinked) =>
        LET item == CursorItem(prev)
            visible == DerivedVisible(m)
        IN  IF item # "" /\ IndexOf(visible, item) >= 0
            THEN m.cursor = IndexOf(visible, item)
            ELSE IF visible = <<>> THEN m.cursor = 0
            ELSE m.cursor \in 0..(Len(visible) - 1)

\* C22: a ToggleSelection that deselects an item while hideUnlinked is true
\* clears hideUnlinked exactly when nothing is selected afterwards; with an
\* item still selected, shown by the filter or not, hideUnlinked stays true.
C22_AutoDisableOnlyOnLast ==
    (/\ key = " " /\ ~prev.filtering /\ prev.hideUnlinked
     /\ CursorItem(prev) \in prev.selected)
    => (~m.hideUnlinked <=> m.selected = {})

\* C25: a SelectAllVisible outside Filtering mode leaves every item of the
\* visible sequence selected, appends those that were not selected to the
\* selection order in their visible order, after the items selected before
\* and without reordering them, and leaves the selection of the items that
\* are not visible alone; in the custom-list session and in the list-based
\* one (whose steps are those of SpecRun).
C25_SelectAllVisible ==
    [][/\ (pc = "validate" /\ key' = "ctrl+a" /\ ~m.filtering) =>
             LET visible == computeVisible(m)
                 added == SelectSeq2(visible, Range(visible) \ m.selected)
             IN  /\ m'.selected = m.selected \cup Range(visible)
                 /\ m'.selectedOrder = m.selectedOrder \o added
       /\ (/\ pc = "select" /\ key' = "ctrl+a" /\ ~ui.loading
           /\ ui.list.filterState # "filtering") =>
             \E visible \in VisibleItems(ui.list) :
                LET names == [i \in 1..Len(visible) |-> visible[i].name]
                    added == SelectSeq2(names, Range(names) \ ui.selectedMap)
                IN  /\ ui'.selectedMap = ui.selectedMap \cup Range(names)
                    /\ ui'.selectedOrder = ui.selectedOrder \o added]_vars

\* C25 witness: with G and the stray name x selected, in this order, and no
\* filter, select-all has appended gh and hg in the order of the list.
C25_Witness ==
    /\ key = "ctrl+a" /\ ~prev.filtering /\ prev.filter = <<>>
    /\ prev.selectedOrder = <<"G", Stray>>
    /\ m.selectedOrder = <<"G", Stray, "gh", "hg">>
    /\ m.selected = {"G", Stray, "gh", "hg"}

\* C26: after a DeselectAll outside Filtering mode nothing is selected, the
\* selection order is empty, hideUnlinked is false, and the cursor is within
\* the bounds of the visible sequence (0 when it is empty).
C26_DeselectAll ==
    (key = "ctrl+d" /\ ~prev.filtering) =>
        LET visible == DerivedVisible(m)
        IN  /\ m.selected = {} /\ m.selectedOrder = <<>>
            /\ ~m.hideUnlinked
            /\ IF visible = <<>> THEN m.cursor = 0
               ELSE m.cursor \in 0..(Len(visible) - 1)

\* C27: outside Filtering mode Up, Down, JumpTop, JumpBottom, PageUp and
\* PageDown put the cursor where the move by 1, to an end, or by
\* maxVisibleItems leads, limited to 0 .. len(visible)-1, and at 0 when the
\* visible sequence is empty.
C27_MovementClamps ==
    (key \in {"up", "down", "g", "G", "pgup", "pgdown"} /\ ~prev.filtering) =>
        LET n == Len(computeVisible(prev))
            clamp(x) == IF n = 0 THEN 0 ELSE Max(0, Min(x, n - 1))
        IN  m.cursor = CASE key = "up" -> clamp(prev.cursor - 1)
                         [] key = "down" -> clamp(prev.cursor + 1)
                         [] key = "g" -> 0
                         [] key = "G" -> clamp(n - 1)
                         [] key = "pgup" -> clamp(prev.cursor - prev.maxVisibleItems)
                         [] key = "pgdown" -> clamp(prev.cursor + prev.maxVisibleItems)

\* C28: the filter key outside Filtering mode enters Filtering mode and
\* keeps the filter text; the confirm key in Filtering mode leaves it, keeps
\* the filter text and does not end the session; the session ends as
\* Confirmed exactly by the confirm key outside Filtering mode.
C28_FilterModeTransitions ==
    /\ (key = "/" /\ ~prev.filtering)
          => m.filtering /\ m.filter = prev.filter /\ ~m.quit
    /\ (key = "enter" /\ prev.filtering)
          => ~m.filtering /\ m.filter = prev.filter /\ ~m.quit
    /\ (m.quit /\ ~m.aborted) <=> (key = "enter" /\ ~prev.filtering)

\* C28 witness: Enter has left Filtering mode with the filter text h kept
\* and the session going on.
C28_Witness ==
    /\ key = "enter" /\ prev.filtering /\ prev.filter = <<"h">>
    /\ ~m.filtering /\ m.filter = <<"h">> /\ ~m.quit

C23_HideNeedsSelection ==
    [][/\ m'.hideUnlinked => m'.selected # {}
       /\ ui'.hideUnlinked => ui'.selectedMap # {}
       /\ (key' = "h" /\ m' # m /\ ~m.filtering /\ m.selected = {})
             => [m' EXCEPT !.cacheValid = FALSE, !.cachedVisibleChoices = <<>>]
                  = [m EXCEPT !.cacheValid = FALSE, !.cachedVisibleChoices = <<>>]
       /\ (/\ pc = "select" /\ key' = "h" /\ ~ui.loading
           /\ ui.list.filterState # "filtering" /\ ui.selectedMap = {})
             => ui' = ui /\ ~uiQuit']_vars

\* C24: in the list-based session, with no rebuild command and no
\* itemsRefreshedMsg in flight, hideUnlinked true means that every item of
\* the list is selected.
C24_HideShowsOnlyLinked ==
    (pc = "select" /\ ~ui.loading /\ cmds = <<>> /\ ui.hideUnlinked) =>
        \A i \in 1..Len(ui.list.items) : ui.list.items[i].name \in ui.selectedMap

\* C30 as stated: an abort key event in Loading, Browsing or Filtering ends
\* the session as Aborted at once (ctrl+c in the list-based session, esc in
\* the custom-list one).
C30_AbortEverywhere ==
    /\ (pc = "select" /\ key = "ctrl+c") => ui.aborted /\ uiQuit
    /\ (pc = "validate" /\ key = "esc") => m.aborted /\ m.quit

\* C30, amended: while the session is loading the abort key is ignored, as
\* every key is; once the files are loaded it ends the session as Aborted at
\* once, in Filtering mode too.
C30_AbortWhenLoaded ==
    /\ (pc = "select" /\ key = "ctrl+c") =>
          IF ui.loading THEN ~ui.aborted /\ ~uiQuit /\ ui = NewFileSelect
          ELSE ui.aborted /\ uiQuit
    /\ (pc = "validate" /\ key = "esc") => m.aborted /\ m.quit

\* C30 witness: ctrl+c while the filter of the list was being typed has
\* ended the session as Aborted.
C30_Witness ==
    /\ pc = "select" /\ key = "ctrl+c"
    /\ ~ui.loading /\ ui.list.filterState = "filtering"
    /\ ui.aborted /\ uiQuit

\* C31: a key event that arrives while the list-based session is loading
\* leaves the model as it was and the session running; until the
\* files-loaded event the model is the one ShowFileSelect created.
C31_NoInputWhileLoading ==
    [][/\ (pc = "select" /\ ui.loading /\ ~uiQuit /\ key' # "")
             => ui' = ui /\ ~uiQuit' /\ pc' = "select"
       /\ (ui'.loading /\ ~uiQuit') => ui' = NewFileSelect]_vars

\* C31 witness: Space has arrived while loading: nothing is selected, the
\* list is empty and the session is still loading.
C31_Witness ==
    /\ pc = "select" /\ key = " " /\ ~uiQuit
    /\ ui.loading /\ ui = NewFileSelect

(***************************************************************************)
(* Claims about the batch operations of the reconciler, checked under      *)
(* Spec.                                                                   *)
(***************************************************************************)
\* the calls of RemoveSymlink and CreateSymlink the last batch operation
\* made, in order
Calls ==
    SelectSeq(trace, LAMBDA e : e.op \in {"RemoveSymlink", "CreateSymlink"})

\* the names the last batch operation called fn for
CalledFor(fn) == {Calls[i].name : i \in {j \in 1..Len(Calls) : Calls[j].op = fn}}

\* currentlyEnabled, as ApplyChanges computes it when it starts
EnabledAtStart == GetEnabledFiles(pre, sourceDir, targetDir)

\* C32: a successful ApplyChanges has called RemoveSymlink for exactly the
\* names that were enabled when it started and are not selected, each once,
\* and CreateSymlink for exactly the selected names that were not enabled;
\* in every ApplyChanges, failed ones included, no RemoveSymlink call
\* follows a CreateSymlink call, and the calls are calls for those names.
C32_RemovalsBeforeCreations ==
    opName = "ApplyChanges" =>
        /\ \A i, j \in 1..Len(Calls) :
              (Calls[i].op = "CreateSymlink" /\ Calls[j].op = "RemoveSymlink") => j < i
        /\ \A i, j \in 1..Len(Calls) :
              (Calls[i] = Calls[j] /\ Calls[i].op = "RemoveSymlink") => i = j
        /\ CalledFor("RemoveSymlink") \subseteq EnabledAtStart \ Range(opArg)
        /\ CalledFor("CreateSymlink") \subseteq Range(opArg) \ EnabledAtStart
        /\ \A i \in 1..Len(Calls) : Calls[i].dir = AbsTgt
        /\ err = "" =>
              /\ CalledFor("RemoveSymlink") = EnabledAtStart \ Range(opArg)
              /\ CalledFor("CreateSymlink") = Range(opArg) \ EnabledAtStart

\* C32 witness: with a enabled and b selected, ApplyChanges has called
\* RemoveSymlink for a and then CreateSymlink for b.
C32_Witness ==
    /\ opName = "ApplyChanges" /\ err = "" /\ opArg = <<"b">>
    /\ EnabledAtStart = {"a"}
    /\ Calls = <<Call("RemoveSymlink", AbsTgt, "a"), Call("CreateSymlink", AbsTgt, "b")>>

\* the calls a batch operation was to make after the calls it made
\* (CleanOrphanedSymlinks: the rest of the list; ApplyChanges: the removals
\* and creations not called)
NotAttempted ==
    IF opName = "CleanOrphanedSymlinks"
    THEN Range(SubSeq(opArg, Len(Calls) + 1, Len(opArg))) \ CalledFor("RemoveSymlink")
    ELSE ((EnabledAtStart \ Range(opArg)) \ CalledFor("RemoveSymlink"))
           \cup ((Range(opArg) \ EnabledAtStart) \ CalledFor("CreateSymlink"))

\* C33: when ApplyChanges or CleanOrphanedSymlinks returns an error, the
\* last call it made is the one that failed (repeated on the file system it
\* left, the call fails again), it returns an error, the link of every
\* earlier RemoveSymlink call is gone and the link of every earlier
\* CreateSymlink call is there, and every entry of the target directory
\* that no call was made for is as it was before the operation.
C33_StopAtFirstError ==
    (opName \in {"ApplyChanges", "CleanOrphanedSymlinks"} /\ err # "") =>
        /\ Calls # <<>>
        /\ LET last == Calls[Len(Calls)]
           IN  IF last.op = "RemoveSymlink"
               THEN RemoveSymlink(fs, denied, targetDir, last.name).err # ""
               ELSE CreateSymlink(fs, denied, sourceDir, targetDir, last.name).err # ""
        /\ opName = "CleanOrphanedSymlinks" =>
              /\ [i \in 1..Len(Calls) |-> Calls[i].name] = SubSeq(opArg, 1, Len(Calls))
              /\ err = "failed to clean orphaned symlink"
        /\ \A i \in 1..(Len(Calls) - 1) :
              \/ Calls[i].name = Calls[Len(Calls)].name
              \/ IF Calls[i].op = "RemoveSymlink"
                 THEN TgtEntry(fs, Calls[i].name) = None
                 ELSE TgtEntry(fs, Calls[i].name)
                        = Link(SymlinkTarget(sourceDir, targetDir, Calls[i].name))
        /\ \A n \in Names \ {Calls[i].name : i \in 1..Len(Calls)} :
              TgtEntry(fs, n) = TgtEntry(pre, n)
        /\ \A n \in NotAttempted : TgtEntry(fs, n) = TgtEntry(pre, n)

\* C33 witness: ApplyChanges has removed the link b and failed to create
\* the link a: it has returned the error, b is still removed and a is not
\* there.
C33_Witness ==
    /\ opName = "ApplyChanges" /\ err # "" /\ opArg = <<"a">>
    /\ Calls = <<Call("RemoveSymlink", AbsTgt, "b"), Call("CreateSymlink", AbsTgt, "a")>>
    /\ TgtEntry(pre, "b").kind = "link" /\ TgtEntry(fs, "b") = None
    /\ TgtEntry(fs, "a") = None

\* C34: a successful ApplyChanges leaves as it was every entry of the
\* target directory whose name was enabled and is selected, and every entry
\* whose name was not enabled and is not selected; it makes no call, and no
\* mutation, for such a name.
C34_OnlyTheDifference ==
    (opName = "ApplyChanges" /\ err = "") =>
        \A n \in Names :
            (n \in EnabledAtStart <=> n \in Range(opArg)) =>
                /\ TgtEntry(fs, n) = TgtEntry(pre, n)
                /\ \A i \in 1..Len(trace) : trace[i].name # n

\* C34 witness: ApplyChanges has been given the selection b with b enabled
\* and a a link that leads out of the source directory: both links are as
\* they were.
C34_Witness ==
    /\ opName = "ApplyChanges" /\ err = "" /\ opArg = <<"b">>
    /\ EnabledAtStart = {"b"}
    /\ TgtEntry(pre, "a").kind = "link"
    /\ TgtEntry(fs, "a") = TgtEntry(pre, "a") /\ TgtEntry(fs, "b") = TgtEntry(pre, "b")

\* C35: two calls of ValidateSymlinks in a row, the file system being the
\* same for both, return the same names in the same order.
C35_SameOrphanOrder ==
    [][(opName = "ValidateSymlinks" /\ opName' = "ValidateSymlinks" /\ fs' = fs)
          => opArg' = opArg]_vars

(***************************************************************************)
(* Further claims about the orchestrator and the list-based selection      *)
(* session, checked under SpecRun.                                         *)
(***************************************************************************)
\* the order of the steps of run(): from each step, the steps that may come
\* next
RunEdges ==
    { <<"validate", "confirm">>, <<"validate", "select">>,
      <<"confirm", "clean">>, <<"confirm", "select">>, <<"confirm", "exit">>,
      <<"clean", "select">>, <<"clean", "exit">>,
      <<"select", "apply">>, <<"select", "exit">>,
      <<"apply", "exit">> }

\* C36: run() goes through detect, confirm, clean, select and apply in this
\* order and never back; it calls CleanOrphanedSymlinks only when the
\* detected list is not empty and the answer was yes, with the detected
\* list; the selection session does nothing before the orphan step is over;
\* it calls ApplyChanges only once, after a session that ended by Confirm
\* (the enter key), with the list ShowFileSelect returned; and the file
\* system changes in these two calls only.
C36_Sequencing ==
    [][/\ pc' # pc => <<pc, pc'>> \in RunEdges
       /\ (pc = "validate" /\ pc' # pc) =>
             /\ Range(orphaned') = ValidateSymlinks(fs, sourceDir, targetDir)
             /\ pc' = "confirm" <=> orphaned' # <<>>
       /\ (pc = "confirm" /\ pc' = "select") =>
             ShowConfirmation(dlg') = [err |-> "", confirmed |-> FALSE]
       /\ (pc = "clean" /\ pc' # pc) =>
             /\ orphaned # <<>>
             /\ dlg.quit /\ ShowConfirmation(dlg) = [err |-> "", confirmed |-> TRUE]
             /\ Range(orphaned) = ValidateSymlinks(startFS, sourceDir, targetDir)
             /\ fs = startFS
             /\ opName' = "CleanOrphanedSymlinks" /\ opArg' = orphaned
       /\ pc' \in {"validate", "confirm", "clean"} =>
             ui' = NewFileSelect /\ ~uiQuit' /\ cmds' = <<>>
       /\ (pc = "apply" /\ pc' # pc) =>
             /\ uiQuit /\ returned = ShowFileSelect(ui) /\ returned.err = ""
             /\ key = "enter"
             /\ opName' = "ApplyChanges" /\ opArg' = returned.list
             /\ pc' = "exit"
       /\ (fs' # fs \/ opName' # opName) => (pc \in {"clean", "apply"} /\ pc' # pc)]_vars

\* C37: once the files are loaded, every selected name of the list-based
\* session is one of availableFiles, the listing of the source directory,
\* and so is every name of the list ShowFileSelect returns.
C37_SelectedAreChoices ==
    /\ (pc = "select" /\ ~ui.loading) =>
          /\ ui.availableFiles = ListAvailableFiles(fs, sourceDir)
          /\ ui.selectedMap \subseteq Range(ui.availableFiles)
          /\ Range(ui.selectedOrder) \subseteq Range(ui.availableFiles)
    /\ (pc \in {"apply", "exit"} /\ uiQuit /\ returned.err = "") =>
          Range(returned.list) \subseteq Range(ListAvailableFiles(startFS, sourceDir))

(***************************************************************************)
(* Further claims about the bookkeeping of the selection, checked under    *)
(* SpecSel.                                                                *)
(***************************************************************************)
\* C38: in every state of a session the order of selection holds every
\* selected name once and nothing else; in the custom-list model the keys
\* of selectedIndex are the selected names and the index of a name is its
\* position in the order, counted from 0.
C38_Bookkeeping ==
    /\ Range(m.selectedOrder) = m.selected
    /\ Cardinality(m.selected) = Len(m.selectedOrder)
    /\ DOMAIN m.selectedIndex = m.selected
    /\ \A c \in m.selected :
          /\ m.selectedIndex[c] \in 0..(Len(m.selectedOrder) - 1)
          /\ m.selectedOrder[m.selectedIndex[c] + 1] = c
    /\ Range(ui.selectedOrder) = ui.selectedMap
    /\ Cardinality(ui.selectedMap) = Len(ui.selectedOrder)

\* C38 witness: of hg and gh, selected in this order, hg has been
\* deselected: gh is now the first of the order, with index 0.
C38_Witness ==
    /\ Toggled("hg")
    /\ prev.selectedOrder = <<"hg", "gh">>
    /\ m.selectedOrder = <<"gh">>
    /\ m.selected = {"gh"}
    /\ m.selectedIndex = [c \in {"gh"} |-> 0]

\* C39: a key event that is not a selection key (Space, ctrl+a, ctrl+d
\* outside Filtering mode) leaves selected, the order of selection and
\* selectedIndex as they were: the keys that move the cursor, /, the
\* characters and Backspace of Filtering mode, enter and h; and a session
\* that has ended by Confirm returns the whole order of selection, the
\* names the filter hides included.
C39_ViewingKeepsSelection ==
    /\ (key # "" /\ (prev.filtering \/ key \notin {" ", "ctrl+a", "ctrl+d"})) =>
          /\ m.selected = prev.selected
          /\ m.selectedOrder = prev.selectedOrder
          /\ m.selectedIndex = prev.selectedIndex
    /\ (m.quit /\ ~m.aborted) =>
          /\ key = "enter" /\ ~prev.filtering
          /\ Range(m.selectedOrder) = prev.selected

\* C39 witness: a session with G and gh selected, in this order, has been
\* confirmed with the filter text h, which hides G: the order of selection
\* still holds G.
C39_Witness ==
    /\ m.quit /\ ~m.aborted /\ key = "enter"
    /\ m.filter = <<"h">>
    /\ m.selectedOrder = <<"G", "gh">>
    /\ "G" \notin Range(DerivedVisible(m))

(***************************************************************************)
(* The list-based session with several refreshes in flight: the program    *)
(* runs every command in a goroutine of its own, so that a key event may   *)
(* arrive while the rebuild commands of earlier ones have not run or their *)
(* messages have not been delivered, and the messages arrive in any order. *)
(***************************************************************************)
\* most rebuild commands and itemsRefreshedMsg in flight at a time
MaxPending == 2

\* the keys that have the list rebuilt
RebuildKeys == {"h", "ctrl+a", "ctrl+d"}

\* run() has found nothing orphaned and has called ShowFileSelect; the
\* source directory holds a and b, and b is linked
InitRefresh ==
    /\ sourceDir = RunSrc
    /\ targetDir = RunTgt
    /\ fs \in {f \in RunFS : /\ ListAvailableFiles(f, RunSrc) = <<"a", "b">>
                               /\ GetEnabledFiles(f, RunSrc, RunTgt) = {"b"}}
    /\ denied = {}
    /\ InitOp
    /\ NoSession
    /\ pc = "select"
    /\ startFS = fs
    /\ orphaned = <<>>
    /\ dlg = NewConfirm
    /\ ui = NewFileSelect
    /\ uiQuit = FALSE
    /\ cmds = <<>>
    /\ returned = [err |-> "", list |-> <<>>]
    /\ outcome = ""

\* the program delivers one of the keys that have the list rebuilt, whatever
\* is in flight; a write to the selection map that a command in flight
\* reads at the same time may end the process
RebuildKey ==
    /\ pc = "select" /\ ~uiQuit
    /\ Len(cmds) < MaxPending
    /\ \E k \in RebuildKeys, visible \in VisibleItems(ui.list) :
       \E r \in {UpdateList(ui, k, visible)} :
          LET replaced == k = "ctrl+d" /\ ~ui.loading /\ ui.list.filterState # "filtering"
              written == ~replaced /\ r.m.selectedMap # ui.selectedMap
              racing == \E i \in 1..Len(cmds) :
                            cmds[i].kind = "rebuild" /\ cmds[i].shared
          IN  /\ key' = k
              /\ ui' = r.m
              /\ uiQuit' = (r.cmd = QuitCmd)
              /\ cmds' = LET cs == IF replaced THEN Detach(cmds, ui.selectedMap) ELSE cmds
                         IN  IF r.cmd.kind = "rebuild" THEN Append(cs, r.cmd) ELSE cs
              /\ \/ UNCHANGED <<pc, outcome>>
                 \/ written /\ racing /\ Exit("fatal error")
    /\ UNCHANGED <<fsVars, opVars, m, prev, startFS, orphaned, dlg, returned>>

NextRefresh ==
    \/ FilesLoaded
    \/ RebuildKey
    \/ RunRebuild
    \/ ItemsRefreshed

\* one selection session in which only the rebuilding keys are pressed
SpecRefresh == InitRefresh /\ [][NextRefresh]_vars

\* C40: in the list-based session, whenever no rebuild command and no
\* itemsRefreshedMsg is in flight, the items of the list are buildItemList
\* of the current availableFiles, hideUnlinked and selectedMap.
C40_RefreshesConverge ==
    (pc = "select" /\ ~uiQuit /\ ~ui.loading /\ cmds = <<>>) =>
        ui.list.items
          = buildItemList(ui.availableFiles, ui.hideUnlinked, ui.selectedMap)

====
